---- MODULE Spec2Model ----
(***************************************************************************)
(* A model of the StockAnalyzer backtest simulator and its grid-search     *)
(* optimizer (src/backtest_engine.py), and of the technical analyzer's     *)
(* scenario, action-plan, divergence and scoring rules                     *)
(* (src/analysis_engine.py).                                               *)
(*                                                                         *)
(* Money.  The source computes in floating point.  The model computes the  *)
(* same quantities exactly: a close is a whole number of currency units    *)
(* and an amount of money is a whole number of 1/RateDen currency units,   *)
(* RateDen = 40000 being the common denominator of the two rates of the    *)
(* constructor, fee_rate = 0.001425 = 57/40000 and tax_rate = 0.003 =      *)
(* 120/40000.  Every amount the simulator produces is a multiple of that   *)
(* unit.  Percentages that are quotients (a trade's return, win_rate,      *)
(* max_drawdown) are kept as reduced fractions [num, den] of the value     *)
(* before its multiplication by 100; total_return, whose denominator is    *)
(* always initial_capital, is kept as its numerator (see RetUnit).         *)
(***************************************************************************)
EXTENDS Integers, Sequences, FiniteSets, TLC

\* ------------------------------------------------------------------ bounds
\* Longest bar series explored.
MaxBars == 3
\* The constructor's initial_capital, in currency units (the application
\* passes 100000; the simulation only depends on it relative to the closes).
InitialCapital == 20

\* --------------------------------------------------------------- constants
\* fee_rate = FeeNum / RateDen, tax_rate = TaxNum / RateDen.
RateDen == 40000
FeeNum == 57
TaxNum == 120
\* Python's None in a trade's exit_date / exit_price (dates and closes are
\* positive, so 0 is free).
None == 0
\* optimize's initial best_ret, in percent.
InitBestRet == -999

\* ------------------------------------------------------------------ inputs
\* Closes a bar may have.  With InitialCapital = 20: 5 buys three shares,
\* 10 buys one, 25 buys none until a profit has been made.
Closes == {5, 10, 25}
\* Trigger scores a bar may have (_precalculate_scores yields whole numbers
\* between -6 and 7 and never NaN, so run's np.isnan skip is never taken).
Scores == {-4, 0, 2, 5}
\* Thresholds a direct caller of run may pass: the defaults (3, -2) and the
\* overlapping pair (0, 0), where one score satisfies both conditions.
RunBuyThresholds == {0, 3}
RunSellThresholds == {-2, 0}

\* optimize's search space, in iteration order (buy outer, sell inner).
buy_thresholds == <<1, 2, 3, 4, 5>>
sell_thresholds == <<-1, -2, -3, -4>>

VARIABLES
    closes,         \* self.df['Close'].values
    scores,         \* self.df['Trigger_Score'].values
    self,           \* the engine's fields: position, cash, holdings, trades, equity_curve
    pc,             \* "idle", "run" (inside run's loop, called directly), "optimize"
    i,              \* run's loop index (1-based)
    buy_threshold,  \* run's parameters
    sell_threshold,
    res,            \* what the last direct call of run returned: <<>> (none yet, or a
                    \* call is under way) or <<report>>
    opt,            \* optimize's locals: k (position in the grid), best_ret, best_params, best_res
    opt_out,        \* what the last call of optimize returned: <<>> or <<[best_params, best_res]>>
    trial,          \* concurrent execution only: per thread, the locals of its call of
                    \* run (pc, loop index i, grid position k of its thresholds, report res)
    analyzer,       \* TechnicalAnalyzer: the fields and arguments the method under
                    \* way reads (<<>> while the backtest engine is the subject)
    result,         \* what that method returned: <<>> (not yet) or <<value>>
    local,          \* the locals of a method that runs in several steps: its
                    \* position, the running score and the details (<<>> otherwise)
    os              \* what the program reaches through the os module and the clock:
                    \* the files of its directories and today's date (<<>> while
                    \* no file is involved)

vars == <<closes, scores, self, pc, i, buy_threshold, sell_threshold, res, opt, opt_out, trial,
          analyzer, result, local, os>>

\* --------------------------------------------------------------- fractions
RECURSIVE GCD(_, _)
GCD(a, b) == IF b = 0 THEN a ELSE GCD(b, a % b)

Abs(x) == IF x < 0 THEN -x ELSE x

\* The fraction n/d (d > 0) in lowest terms.
Frac(n, d) ==
    LET g == GCD(Abs(n), d)
    IN  [num |-> n \div g, den |-> d \div g]

\* a/b < c/d for a, c >= 0 and b, d > 0, by continued-fraction expansion
\* (no product of two amounts is formed).
RECURSIVE FracLess(_, _, _, _)
FracLess(a, b, c, d) ==
    LET qa == a \div b
        qc == c \div d
        ra == a % b
        rc == c % d
    IN  IF qa # qc THEN qa < qc
        ELSE IF rc = 0 THEN FALSE
        ELSE IF ra = 0 THEN TRUE
        ELSE FracLess(d, rc, b, ra)

\* ------------------------------------------------------------------ engine
\* initial_capital in money units.
InitialCash == InitialCapital * RateDen

\* total_return is kept in units of 1/RetUnit percent:
\* ((final_eq - initial)/initial)*100 percent = (final_eq - initial) units.
RetUnit == InitialCash \div 100

\* BacktestEngine.__init__ / run's "Reset State".
ResetState ==
    [position |-> 0, cash |-> InitialCash, holdings |-> 0,
     trades |-> <<>>, equity_curve |-> <<>>]

\* shares = int(cash // price): the entry fee is not reserved.
SharesIgnoringFee(cash, price) == cash \div (RateDen * price)

\* shares = int((cash / (1 + fee_rate)) // price)
Shares(cash, price) == cash \div ((RateDen + FeeNum) * price)

\* SellLogic with the position flag left at 1 after the sale.
SellLogicKeepsPosition(e, n) ==
    LET price == closes[n]
        revenue == e.holdings * price
        net == revenue * RateDen - revenue * FeeNum - revenue * TaxNum
        last == Len(e.trades)
        last_trade == e.trades[last]
        pnl == net - last_trade.cost
    IN  [e EXCEPT !.cash = @ + net,
                  !.trades[last] = [last_trade EXCEPT !.exit_date = n,
                                                      !.exit_price = price,
                                                      !.pnl = pnl,
                                                      !.return = Frac(pnl, last_trade.cost)],
                  !.holdings = 0]

\* SellLogic with the trade's exit_date never written.
SellLogicNoExitDate(e, n) ==
    LET price == closes[n]
        revenue == e.holdings * price
        net == revenue * RateDen - revenue * FeeNum - revenue * TaxNum
        last == Len(e.trades)
        last_trade == e.trades[last]
        pnl == net - last_trade.cost
    IN  [e EXCEPT !.cash = @ + net,
                  !.trades[last] = [last_trade EXCEPT !.exit_price = price,
                                                      !.pnl = pnl,
                                                      !.return = Frac(pnl, last_trade.cost)],
                  !.holdings = 0,
                  !.position = 0]

\* SellLogic with the tax not deducted from the proceeds.
SellLogicNoTax(e, n) ==
    LET price == closes[n]
        revenue == e.holdings * price
        net == revenue * RateDen - revenue * FeeNum
        last == Len(e.trades)
        last_trade == e.trades[last]
        pnl == net - last_trade.cost
    IN  [e EXCEPT !.cash = @ + net,
                  !.trades[last] = [last_trade EXCEPT !.exit_date = n,
                                                      !.exit_price = price,
                                                      !.pnl = pnl,
                                                      !.return = Frac(pnl, last_trade.cost)],
                  !.holdings = 0,
                  !.position = 0]

\* The sell branch of run's loop body at bar n.
SellLogic(e, n) ==
    LET price == closes[n]
        revenue == e.holdings * price
        fee == revenue * FeeNum
        tax == revenue * TaxNum
        net == revenue * RateDen - fee - tax
        last == Len(e.trades)
        last_trade == e.trades[last]
        pnl == net - last_trade.cost
    IN  [e EXCEPT !.cash = @ + net,
                  !.trades[last] = [last_trade EXCEPT !.exit_date = n,
                                                      !.exit_price = price,
                                                      !.pnl = pnl,
                                                      !.return = Frac(pnl, last_trade.cost)],
                  !.holdings = 0,
                  !.position = 0]

\* The buy branch of run's loop body at bar n, shares > 0.
BuyLogic(e, n) ==
    LET price == closes[n]
        shares == Shares(e.cash, price)
        cost == shares * price * RateDen
        fee == shares * price * FeeNum
    IN  [e EXCEPT !.cash = @ - (cost + fee),
                  !.holdings = shares,
                  !.position = 1,
                  !.trades = Append(@, [entry_date |-> n, entry_price |-> price,
                                        shares |-> shares, cost |-> cost + fee,
                                        exit_date |-> None, exit_price |-> None,
                                        pnl |-> 0, return |-> Frac(0, 1)])]

\* BarAction buying only on a score strictly above the buy threshold.
BarActionStrictBuy(e, n, b, s) ==
    IF e.position > 0
    THEN IF scores[n] <= s THEN "SELL" ELSE "None"
    ELSE IF e.position = 0
    THEN IF scores[n] > b /\ Shares(e.cash, closes[n]) > 0 THEN "BUY" ELSE "None"
    ELSE "None"

\* BarAction comparing the score with the sell threshold when flat.
BarActionWrongThreshold(e, n, b, s) ==
    IF e.position > 0
    THEN IF scores[n] <= s THEN "SELL" ELSE "None"
    ELSE IF e.position = 0
    THEN IF scores[n] >= s /\ Shares(e.cash, closes[n]) > 0 THEN "BUY" ELSE "None"
    ELSE "None"

\* The action run takes at bar n: "SELL", "BUY" or "None".
BarAction(e, n, b, s) ==
    IF e.position > 0
    THEN IF scores[n] <= s THEN "SELL" ELSE "None"
    ELSE IF e.position = 0
    THEN IF scores[n] >= b /\ Shares(e.cash, closes[n]) > 0 THEN "BUY" ELSE "None"
    ELSE "None"

\* BarStep with the buy logic under "if" instead of "elif": a bar that sold
\* may buy again.
BarStepReenter(e, n, b, s) ==
    LET sold == e.position > 0 /\ scores[n] <= s
        e1 == IF sold THEN SellLogic(e, n) ELSE e
        bought == e1.position = 0 /\ scores[n] >= b /\ Shares(e1.cash, closes[n]) > 0
        e2 == IF bought THEN BuyLogic(e1, n) ELSE e1
        action == IF bought THEN "BUY" ELSE IF sold THEN "SELL" ELSE "None"
        curr_equity == e2.cash + e2.holdings * closes[n] * RateDen
    IN  [e2 EXCEPT !.equity_curve =
            Append(@, [date |-> n, equity |-> curr_equity, action |-> action])]

\* One iteration of run's loop: bar n under thresholds (b, s).
BarStep(e, n, b, s) ==
    LET action == BarAction(e, n, b, s)
        e1 == IF action = "SELL" THEN SellLogic(e, n)
              ELSE IF action = "BUY" THEN BuyLogic(e, n)
              ELSE e
        curr_equity == e1.cash + e1.holdings * closes[n] * RateDen
    IN  [e1 EXCEPT !.equity_curve =
            Append(@, [date |-> n, equity |-> curr_equity, action |-> action])]

\* run's loop from bar n to the last bar.
RECURSIVE RunBars(_, _, _, _)
RunBars(e, n, b, s) ==
    IF n > Len(closes) THEN e ELSE RunBars(BarStep(e, n, b, s), n + 1, b, s)

\* ------------------------------------------------------------------ report
IsDone(t) == t.exit_date # None
IsWin(t) == t.pnl > 0

\* The largest drawdown (cummax - eq)/cummax over curve[n..], as [num, den],
\* given the running peak of curve[1..n-1] and the largest drawdown so far.
RECURSIVE WorstDrawdown(_, _, _, _)
WorstDrawdown(curve, n, peak, worst) ==
    IF n > Len(curve) THEN worst
    ELSE LET eq == curve[n].equity
             pk == IF eq > peak THEN eq ELSE peak
             dd == [num |-> pk - eq, den |-> pk]
             w  == IF FracLess(worst.num, worst.den, dd.num, dd.den) THEN dd ELSE worst
         IN  WorstDrawdown(curve, n + 1, pk, w)

\* _generate_report.
GenerateReport(e) ==
    IF e.trades = <<>>
    THEN [total_return |-> 0, win_rate |-> Frac(0, 1), max_drawdown |-> Frac(0, 1),
          trades |-> <<>>, equity_df |-> e.equity_curve, holding |-> FALSE]
    ELSE LET done_trades == SelectSeq(e.trades, IsDone)
             wins == SelectSeq(done_trades, IsWin)
             win_rate == IF done_trades # <<>>
                         THEN Frac(Len(wins), Len(done_trades))
                         ELSE Frac(0, 1)
             final_eq == e.equity_curve[Len(e.equity_curve)].equity
             ret == final_eq - InitialCash
             worst == WorstDrawdown(e.equity_curve, 1, 0, [num |-> 0, den |-> 1])
         IN  [total_return |-> ret,
              win_rate |-> win_rate,
              max_drawdown |-> Frac(-worst.num, worst.den),
              trades |-> done_trades,
              equity_df |-> e.equity_curve,
              holding |-> (e.position = 1)]

\* The engine after run(b, s), and the report run(b, s) returns.
RunFinal(b, s) == RunBars(ResetState, 1, b, s)
RunReport(b, s) == GenerateReport(RunFinal(b, s))

\* ---------------------------------------------------------------- optimize
\* The grid in iteration order: pair k of 1..20.
GridSize == Len(buy_thresholds) * Len(sell_thresholds)
GridBuy(k) == buy_thresholds[((k - 1) \div Len(sell_thresholds)) + 1]
GridSell(k) == sell_thresholds[((k - 1) % Len(sell_thresholds)) + 1]

\* optimize's locals before the loops.
OptimizeInit ==
    [k |-> 1, best_ret |-> InitBestRet * RetUnit, best_params |-> <<>>, best_res |-> <<>>]

\* OptimizeKeep without the comparison: the last pair tried is kept.
OptimizeKeepLast(o, r, b, s) ==
    [o EXCEPT !.best_ret = r.total_return,
              !.best_params = <<[buy |-> b, sell |-> s]>>,
              !.best_res = <<r>>]

\* OptimizeKeep replacing the best on an equal total_return too.
OptimizeKeepOnTie(o, r, b, s) ==
    IF r.total_return >= o.best_ret
    THEN [o EXCEPT !.best_ret = r.total_return,
                   !.best_params = <<[buy |-> b, sell |-> s]>>,
                   !.best_res = <<r>>]
    ELSE o

\* The comparison in optimize's inner loop body, for the report r of run(b, s).
OptimizeKeep(o, r, b, s) ==
    IF r.total_return > o.best_ret
    THEN [o EXCEPT !.best_ret = r.total_return,
                   !.best_params = <<[buy |-> b, sell |-> s]>>,
                   !.best_res = <<r>>]
    ELSE o

\* ----------------------------------------------------------------- actions
BarSeries(S) == UNION {[1..n -> S] : n \in 1..MaxBars}

Init ==
    /\ closes \in BarSeries(Closes)
    /\ scores \in [DOMAIN closes -> Scores]
    /\ self = ResetState
    /\ pc = "idle"
    /\ i = 0
    /\ buy_threshold = 3
    /\ sell_threshold = -2
    /\ res = <<>>
    /\ opt = OptimizeInit
    /\ opt_out = <<>>
    /\ trial = <<>>
    /\ os = <<>>
    /\ analyzer = <<>>
    /\ result = <<>>
    /\ local = <<>>

\* The call of run without its "Reset State" block: the accumulators are
\* those the previous call left.
CallRunKeepsState(b, s) ==
    /\ pc = "idle"
    /\ pc' = "run"
    /\ self' = self
    /\ i' = 1
    /\ buy_threshold' = b
    /\ sell_threshold' = s
    /\ res' = <<>>
    /\ opt_out' = <<>>
    /\ UNCHANGED <<os, analyzer, result, local, trial, closes, scores, opt>>

\* run(buy_threshold = b, sell_threshold = s) is called: "Reset State".
CallRun(b, s) ==
    /\ pc = "idle"
    /\ pc' = "run"
    /\ self' = ResetState
    /\ i' = 1
    /\ buy_threshold' = b
    /\ sell_threshold' = s
    /\ res' = <<>>
    /\ opt_out' = <<>>
    /\ UNCHANGED <<os, analyzer, result, local, trial, closes, scores, opt>>

\* One iteration of run's loop.
RunBar ==
    /\ pc = "run"
    /\ i <= Len(closes)
    /\ self' = BarStep(self, i, buy_threshold, sell_threshold)
    /\ i' = i + 1
    /\ UNCHANGED <<os, analyzer, result, local, trial, closes, scores, pc, buy_threshold, sell_threshold, res, opt, opt_out>>

\* run returns self._generate_report().
RunReturn ==
    /\ pc = "run"
    /\ i > Len(closes)
    /\ res' = <<GenerateReport(self)>>
    /\ pc' = "idle"
    /\ UNCHANGED <<os, analyzer, result, local, trial, closes, scores, self, i, buy_threshold, sell_threshold, opt, opt_out>>

\* optimize() is called.
CallOptimize ==
    /\ pc = "idle"
    /\ pc' = "optimize"
    /\ opt' = OptimizeInit
    /\ res' = <<>>
    /\ opt_out' = <<>>
    /\ UNCHANGED <<os, analyzer, result, local, trial, closes, scores, self, i, buy_threshold, sell_threshold>>

\* One iteration of optimize's inner loop: res = self.run(b, s), then the
\* comparison with the best so far.
OptimizeTrial ==
    /\ pc = "optimize"
    /\ opt.k <= GridSize
    /\ LET b == GridBuy(opt.k)
           s == GridSell(opt.k)
           fin == RunFinal(b, s)
       IN  /\ self' = fin
           /\ i' = Len(closes) + 1
           /\ buy_threshold' = b
           /\ sell_threshold' = s
           /\ opt' = [OptimizeKeep(opt, GenerateReport(fin), b, s) EXCEPT !.k = @ + 1]
    /\ UNCHANGED <<os, analyzer, result, local, trial, closes, scores, pc, res, opt_out>>

\* optimize returns best_params, best_res.
OptimizeReturn ==
    /\ pc = "optimize"
    /\ opt.k > GridSize
    /\ opt_out' = <<[best_params |-> opt.best_params, best_res |-> opt.best_res]>>
    /\ pc' = "idle"
    /\ UNCHANGED <<os, analyzer, result, local, trial, closes, scores, self, i, buy_threshold, sell_threshold, res, opt>>

Next ==
    \/ \E b \in RunBuyThresholds, s \in RunSellThresholds : CallRun(b, s)
    \/ RunBar
    \/ RunReturn
    \/ CallOptimize
    \/ OptimizeTrial
    \/ OptimizeReturn

Spec == Init /\ [][Next]_vars

\* ------------------------------------------------- concurrent grid trials
\* The trials of the grid handed to threads that call run on the one engine
\* at the same time.  A thread's step is the reset at run's entry, one
\* iteration of run's loop, or run's return; the engine's fields are the
\* shared self, the loop index and the thresholds are the thread's own.
Trials == {1, 2}
\* Grid positions the two trials are taken from: (1,-1), (3,-1) and (5,-4).
TrialPairs == {1, 9, 20}

InitConc ==
    /\ closes \in BarSeries(Closes)
    /\ scores \in [DOMAIN closes -> Scores]
    /\ self = ResetState
    /\ pc = "concurrent"
    /\ i = 0
    /\ buy_threshold = 3
    /\ sell_threshold = -2
    /\ res = <<>>
    /\ opt = OptimizeInit
    /\ opt_out = <<>>
    /\ os = <<>>
    /\ analyzer = <<>>
    /\ result = <<>>
    /\ local = <<>>
    /\ \E k1 \in TrialPairs, k2 \in TrialPairs :
           /\ k1 < k2
           /\ trial = [t \in Trials |->
                          [pc |-> "call", i |-> 0,
                           k |-> IF t = 1 THEN k1 ELSE k2, res |-> <<>>]]

\* Thread t enters run: "Reset State".
TrialCall(t) ==
    /\ pc = "concurrent"
    /\ trial[t].pc = "call"
    /\ self' = ResetState
    /\ trial' = [trial EXCEPT ![t].pc = "loop", ![t].i = 1]
    /\ UNCHANGED <<os, analyzer, result, local, closes, scores, pc, i, buy_threshold, sell_threshold, res, opt, opt_out>>

\* Thread t executes one iteration of run's loop.
TrialBar(t) ==
    /\ pc = "concurrent"
    /\ trial[t].pc = "loop"
    /\ trial[t].i <= Len(closes)
    /\ self' = BarStep(self, trial[t].i, GridBuy(trial[t].k), GridSell(trial[t].k))
    /\ trial' = [trial EXCEPT ![t].i = @ + 1]
    /\ UNCHANGED <<os, analyzer, result, local, closes, scores, pc, i, buy_threshold, sell_threshold, res, opt, opt_out>>

\* Thread t returns self._generate_report().
TrialReturn(t) ==
    /\ pc = "concurrent"
    /\ trial[t].pc = "loop"
    /\ trial[t].i > Len(closes)
    /\ trial' = [trial EXCEPT ![t].pc = "done", ![t].res = <<GenerateReport(self)>>]
    /\ UNCHANGED <<os, analyzer, result, local, closes, scores, self, pc, i, buy_threshold, sell_threshold, res, opt, opt_out>>

NextConc ==
    \E t \in Trials : TrialCall(t) \/ TrialBar(t) \/ TrialReturn(t)

SpecConc == InitConc /\ [][NextConc]_vars

\* ====================================================================
\* Properties of the simulator (run) and of the optimizer (optimize).
\* ====================================================================

\* The equity-curve entry of the bar processed last.
LastEntry(e) == e.equity_curve[Len(e.equity_curve)]
\* The last trade recorded.
LastTrade(e) == e.trades[Len(e.trades)]
\* The equity-curve entries that carry an action.
HasAction(r) == r.action # "None"
Tagged(e) == SelectSeq(e.equity_curve, HasAction)
\* A step of the module that is one iteration of run's loop (bar i).
IsBarStep == pc = "run" /\ pc' = "run" /\ i' = i + 1

\* C1: after each processed bar, position is 0 or 1, holdings >= 0,
\* position = 1 exactly when holdings > 0, and only the last recorded trade
\* may have no exit date.
C1_FlatOrLong ==
    /\ self.position \in {0, 1}
    /\ self.holdings >= 0
    /\ (self.position = 1) <=> (self.holdings > 0)
    /\ \A k \in 1..Len(self.trades) :
           self.trades[k].exit_date = None => k = Len(self.trades)

\* C1 witness: the run is long in its second trade, the first one closed.
C1_Witness ==
    /\ pc = "run"
    /\ self.position = 1
    /\ Len(self.trades) = 2
    /\ self.trades[1].exit_date # None

\* C2: a trade's exit fields are set iff a SELL bar came after its BUY bar;
\* BUY and SELL strictly alternate on the equity curve, starting with BUY;
\* every trade but the last is closed; the last trade is open exactly when
\* the report's holding flag is true.
C2_ExitIffSold ==
    /\ \A k \in 1..Len(Tagged(self)) :
           Tagged(self)[k].action = (IF k % 2 = 1 THEN "BUY" ELSE "SELL")
    /\ \A k \in 1..Len(self.trades) :
           LET t == self.trades[k]
               soldLater == \E n \in 1..Len(self.equity_curve) :
                                /\ self.equity_curve[n].date > t.entry_date
                                /\ self.equity_curve[n].action = "SELL"
           IN  /\ (t.exit_date # None) <=> soldLater
               /\ (t.exit_price # None) <=> soldLater
               /\ k < Len(self.trades) => t.exit_date # None
    /\ res # <<>> =>
           (res[1].holding <=>
               (self.trades # <<>> /\ LastTrade(self).exit_date = None))

\* C2 witness: a run has returned a report with holding true after an
\* earlier round trip.
C2_Witness ==
    /\ res # <<>>
    /\ res[1].holding
    /\ Len(self.trades) = 2

\* C3: a BUY bar lowers cash by shares*close*(1+fee_rate); a SELL bar raises
\* cash by holdings*close*(1-fee_rate-tax_rate) and the closed trade's pnl is
\* that amount minus the trade's cost (entry amount plus fee); a bar with no
\* action leaves cash, holdings and the trade list unchanged.
C3_CashFlow ==
    [][IsBarStep =>
        LET a == LastEntry(self').action
            close == closes[i]
        IN  /\ a = "BUY" =>
                /\ self'.holdings > 0
                /\ self.cash - self'.cash = self'.holdings * close * (RateDen + FeeNum)
                /\ LastTrade(self').cost = self.cash - self'.cash
                /\ LastTrade(self').shares = self'.holdings
            /\ a = "SELL" =>
                /\ self'.holdings = 0
                /\ self'.cash - self.cash =
                       self.holdings * close * (RateDen - FeeNum - TaxNum)
                /\ LastTrade(self').pnl =
                       (self'.cash - self.cash) - LastTrade(self).cost
                /\ LastTrade(self).cost =
                       self.holdings * LastTrade(self).entry_price * (RateDen + FeeNum)
            /\ a = "None" =>
                /\ self'.cash = self.cash
                /\ self'.holdings = self.holdings
                /\ self'.trades = self.trades
    ]_vars

\* C3 witness: a round trip has been closed at a loss although the close was
\* the entry price (fee on entry, fee and tax on exit).
C3_Witness ==
    /\ pc = "run"
    /\ self.trades # <<>>
    /\ LastTrade(self).exit_date # None
    /\ LastTrade(self).exit_price = LastTrade(self).entry_price
    /\ LastTrade(self).pnl < 0

GridReturn(k) == RunReport(GridBuy(k), GridSell(k)).total_return
GridPair(k) == [buy |-> GridBuy(k), sell |-> GridSell(k)]
\* The first pair, in iteration order, with the largest total_return among
\* the pairs 1..n, given the returns rets of all pairs.
FirstBest(rets, n) ==
    CHOOSE k \in 1..n :
        /\ \A j \in 1..n : rets[j] <= rets[k]
        /\ \A j \in 1..(k - 1) : rets[j] < rets[k]
GridReturns == [k \in 1..GridSize |-> GridReturn(k)]

\* C6: optimize returns a pair of the grid (buy in 1..5, sell in -4..-1)
\* whose total_return is >= that of run(b, s) for every pair of the grid;
\* the result is never empty, also when no pair is profitable.
C6_BestOfGrid ==
    opt_out # <<>> =>
        LET o == opt_out[1]
            rets == GridReturns
        IN  /\ o.best_params # <<>>
            /\ o.best_res # <<>>
            /\ o.best_params[1].buy \in 1..5
            /\ o.best_params[1].sell \in -4..-1
            /\ o.best_res[1].total_return =
                   RunReport(o.best_params[1].buy, o.best_params[1].sell).total_return
            /\ \A k \in 1..GridSize : rets[k] <= o.best_res[1].total_return

\* C6 witness: optimize has returned and its best pair loses money (every
\* pair of the grid trades at a loss).
C6_Witness ==
    /\ opt_out # <<>>
    /\ opt_out[1].best_res # <<>>
    /\ opt_out[1].best_res[1].total_return < 0

\* C7: among the pairs that reach the largest total_return, optimize returns
\* the one met first in iteration order (buy 1..5 outer, sell -1..-4
\* inner); during the search a later pair replaces the current best exactly
\* when its total_return is strictly greater.
C7_FirstFoundWins ==
    /\ [](opt_out # <<>> =>
            opt_out[1].best_params = <<GridPair(FirstBest(GridReturns, GridSize))>>)
    /\ [][(pc = "optimize" /\ opt'.k = opt.k + 1 /\ opt.best_params # <<>>) =>
            IF GridReturn(opt.k) > opt.best_res[1].total_return
            THEN /\ opt'.best_params = <<GridPair(opt.k)>>
                 /\ opt'.best_res[1].total_return = GridReturn(opt.k)
            ELSE /\ opt'.best_params = opt.best_params
                 /\ opt'.best_res = opt.best_res
       ]_vars

\* C7 witness: optimize has returned a profitable pair while a later pair
\* of the grid reaches the same total_return.
C7_Witness ==
    /\ opt_out # <<>>
    /\ opt_out[1].best_res[1].total_return > 0
    /\ \E k \in 1..GridSize :
           /\ GridPair(k) # opt_out[1].best_params[1]
           /\ GridReturn(k) = opt_out[1].best_res[1].total_return

\* No bar's score exceeds 2.
ScoresAtMostTwo == \A n \in DOMAIN scores : scores[n] <= 2

NeverReaches(b) == \A n \in DOMAIN scores : scores[n] < b
\* The equity of every bar recorded on the curve is the initial capital.
FlatCurve(curve) == \A n \in 1..Len(curve) : curve[n].equity = InitialCash
ZeroReport(r) ==
    /\ r.total_return = 0
    /\ r.win_rate = Frac(0, 1)
    /\ r.max_drawdown = Frac(0, 1)
    /\ r.holding = FALSE
    /\ r.trades = <<>>
    /\ Len(r.equity_df) = Len(closes)
    /\ FlatCurve(r.equity_df)

\* C10: if no bar's score reaches buy_threshold, run records no trade, the
\* equity of every bar is the initial capital, and the report has
\* total_return = 0, win_rate = 0, max_drawdown = 0 and holding = false.
C10_NoSignalNoTrade ==
    /\ ((pc = "run" \/ res # <<>> \/ (pc = "optimize" /\ opt.k > 1))
            /\ NeverReaches(buy_threshold)) =>
           /\ self.trades = <<>>
           /\ self.position = 0
           /\ self.cash = InitialCash
           /\ FlatCurve(self.equity_curve)
    /\ (res # <<>> /\ NeverReaches(buy_threshold)) => ZeroReport(res[1])
    /\ (opt.best_params # <<>> /\ NeverReaches(opt.best_params[1].buy)) =>
           ZeroReport(opt.best_res[1])

\* C10 witness: run has returned on a series of several bars that never
\* reaches buy_threshold although it has a score <= sell_threshold.
C10_Witness ==
    /\ res # <<>>
    /\ NeverReaches(buy_threshold)
    /\ Len(closes) > 1
    /\ \E n \in DOMAIN scores : scores[n] <= sell_threshold
    /\ \E n \in DOMAIN closes : closes[n] # closes[1]

\* optimize's comparison applied, in iteration order, to the reports
\* rep[t] of the trials t..2 (trial 1 has the earlier grid position).
RECURSIVE TieBreak(_, _, _)
TieBreak(o, rep, t) ==
    IF t > Cardinality(Trials) THEN o
    ELSE TieBreak(OptimizeKeep(o, rep[t], GridBuy(trial[t].k), GridSell(trial[t].k)),
                  rep, t + 1)

\* C8: the trials are independent: run concurrently on one engine, under any
\* interleaving of their per-bar steps, each trial returns the report the
\* sequential run(b, s) returns, and the tie-break applied after all trials
\* selects the same pair as it does on the sequential reports.
C8_TrialsIndependent ==
    (\A t \in Trials : trial[t].pc = "done") =>
        LET concurrent == [t \in Trials |-> trial[t].res[1]]
            sequential == [t \in Trials |->
                              RunReport(GridBuy(trial[t].k), GridSell(trial[t].k))]
        IN  /\ \A t \in Trials : concurrent[t] = sequential[t]
            /\ TieBreak(OptimizeInit, concurrent, 1).best_params =
                   TieBreak(OptimizeInit, sequential, 1).best_params

\* ======================================================================
\* The technical analyzer (src/analysis_engine.py).
\*
\* Scores.  The additive rules contribute whole points, half points (the
\* price-volume rule) and, through the chip weights, multiples of 0.15
\* points (0.3 * 0.5), so a score is kept as a whole number of hundredths
\* of a point: P(3) is 3 points, Half is 0.5 points.
\*
\* While an analyzer method is the subject the backtest engine is idle and
\* its variables stay as they are.
ScoreDen == 100
P(x) == x * ScoreDen
Half == ScoreDen \div 2

EngineIdle ==
    /\ closes = <<>>
    /\ scores = <<>>
    /\ self = ResetState
    /\ pc = "analysis"
    /\ i = 0
    /\ buy_threshold = 3
    /\ sell_threshold = -2
    /\ res = <<>>
    /\ opt = OptimizeInit
    /\ opt_out = <<>>
    /\ trial = <<>>

\* ----------------------------------------------- trend score and scenario
\* Weekly series handed to _calculate_trend_score: the number of bars and
\* what the rules read of them.  dClose is Close[-1] - Close[-2], dVol is
\* Volume[-1] - the 5-bar mean volume, OBV5 is OBV five bars back, morph is
\* the total of the three pattern detectors (whole points).
WeekBars == {0, 4, 5, 20, 60}
WeekSeries ==
    [bars : WeekBars, Close : {2}, MA20 : {1, 2, 3}, MA60 : {1, 3},
     ADX : {20, 30}, DIplus : {10, 20}, DIminus : {15},
     OBV : {1, 2}, OBV5 : {1}, EFI_EMA13 : {0, 5},
     morph : {-3, 0, 2}, dClose : {-1, 0, 1}, dVol : {-1, 0, 1}]

\* _analyze_price_volume.
AnalyzePriceVolume(df) ==
    IF df.bars < 20 THEN 0
    ELSE IF df.dClose > 0 /\ df.dVol > 0 THEN P(1)
    ELSE IF df.dClose > 0 /\ df.dVol < 0 THEN -Half
    ELSE IF df.dClose < 0 /\ df.dVol > 0 THEN -P(1)
    ELSE IF df.dClose < 0 /\ df.dVol < 0 THEN Half
    ELSE 0

\* _detect_morphology: nothing under 60 bars.
DetectMorphology(df) == IF df.bars < 60 THEN 0 ELSE P(df.morph)

\* _calculate_trend_score.
CalculateTrendScore(df) ==
    IF df.bars < 5 THEN 0
    ELSE
      LET ma  == IF df.Close > df.MA20 /\ df.MA20 > df.MA60 THEN P(2)
                 ELSE IF df.Close > df.MA20 THEN P(1)
                 ELSE IF df.Close < df.MA20 /\ df.MA20 < df.MA60 THEN -P(2)
                 ELSE 0
          dmi == IF df.ADX > 25
                 THEN (IF df.DIplus > df.DIminus THEN P(1) ELSE -P(1))
                 ELSE 0
          obv == IF df.OBV > df.OBV5 THEN P(1) ELSE 0
          efi == IF df.EFI_EMA13 > 0 THEN P(1) ELSE -P(1)
      IN  ma + dmi + obv + efi + DetectMorphology(df) + AnalyzePriceVolume(df)

\* The ranges as they would be written with whole-point scores in mind:
\* B is everything between C and A, so a score of half a point falls in B.
DetermineScenarioIntegerRanges(trend_score) ==
    IF trend_score >= P(3) THEN "A"
    ELSE IF trend_score > 0 THEN "B"
    ELSE IF trend_score >= -P(2) THEN "C"
    ELSE "D"

\* _determine_scenario: the code of the scenario for a trend score.  The
\* dict starts as N and one of the four branches overwrites it.
DetermineScenario(trend_score) ==
    IF trend_score >= P(3) THEN "A"
    ELSE IF P(1) <= trend_score /\ trend_score < P(3) THEN "B"
    ELSE IF -P(2) <= trend_score /\ trend_score <= 0 THEN "C"
    ELSE "D"

InitScenario ==
    /\ EngineIdle
    /\ os = <<>>
    /\ analyzer \in [df_week : WeekSeries]
    /\ result = <<>>
    /\ local = <<>>

\* run_analysis up to the scenario: the weekly trend score, then its scenario.
RunAnalysis ==
    /\ pc = "analysis"
    /\ result = <<>>
    /\ LET trend_score == CalculateTrendScore(analyzer.df_week)
       IN  result' = <<[trend_score |-> trend_score,
                        scenario |-> DetermineScenario(trend_score)]>>
    /\ UNCHANGED <<os, analyzer, local, closes, scores, self, pc, i, buy_threshold, sell_threshold,
                   res, opt, opt_out, trial>>

NextScenario == RunAnalysis

SpecScenario == InitScenario /\ [][NextScenario]_vars

\* ------------------------------------------------------------ action plan
\* Prices.  A column of the daily series holds a whole number of currency
\* units, 0 standing for a column that is absent (current.get(..., 0)).
\* The plan multiplies prices by 0.99, 1.01, 1.05, 0.98, 1.02, 0.9, 1.1 and
\* 1.618, so a price of the plan is kept exactly, as a whole number of
\* 1/PriceDen currency units.
PriceDen == 1000
Price(x) == x * PriceDen

\* dict.get(key, default).
Get(d, key, default) == IF key \in DOMAIN d THEN d[key] ELSE default

\* Daily series handed to _generate_action_plan: the number of bars, the
\* last bar's columns, and Low20 / High20, the minimum Low and the maximum
\* High of the trailing 20 bars.
DaySeries ==
    [bars : {20}, Close : {50}, MA5 : {0, 40, 50}, MA10 : {38, 45}, MA20 : {48},
     MA60 : {0, 46, 60}, MA120 : {0, 52}, MA240 : {51}, ATR : {0, 2, 30},
     Low20 : {40, 50}, High20 : {50, 60}, BB_Lo : {0, 45}, BB_Up : {0, 58}]
\* A series too short for a plan.
ShortDaySeries ==
    [bars : {19}, Close : {50}, MA5 : {50}, MA10 : {45}, MA20 : {0},
     MA60 : {0}, MA120 : {0}, MA240 : {0}, ATR : {2},
     Low20 : {40}, High20 : {60}, BB_Lo : {45}, BB_Up : {58}]
ScenarioCodes == {"A", "B", "C", "D", "N"}
TriggerScores == {-200, 300, 450}
\* self.strategy_params: None, or the thresholds found by the optimizer
\* (in points); a dict without 'sell' takes the default.
StrategyParams == {<<>>, [buy |-> 4, sell |-> -1], [buy |-> 2]}

\* round(100 * n / d, 2) for d > 0, in hundredths of a percent: the nearest
\* whole number of hundredths, a tie going to the even one.
RoundPct(n, d) ==
    LET q == (n * 10000) \div d
        r == (n * 10000) % d
    IN  IF 2 * r < d THEN q
        ELSE IF 2 * r > d THEN q + 1
        ELSE IF q % 2 = 0 THEN q ELSE q + 1

\* list.sort(key = price, reverse = ...), stable: an item goes after the
\* items already placed that precede it or tie with it.  sign is 1 for an
\* ascending sort and -1 for a descending one.
RECURSIVE Insert(_, _, _)
Insert(item, list, sign) ==
    IF list = <<>> THEN <<item>>
    ELSE IF sign * item.price < sign * Head(list).price THEN <<item>> \o list
    ELSE <<Head(list)>> \o Insert(item, Tail(list), sign)

RECURSIVE SortByPrice(_, _)
SortByPrice(list, sign) ==
    IF list = <<>> THEN <<>>
    ELSE Insert(list[Len(list)], SortByPrice(SubSeq(list, 1, Len(list) - 1), sign), sign)

\* Lines 143-169: the stop levels computed from the last bar.
StopLevels(df) ==
    LET close_price == Price(df.Close)
        sl_low == Price(df.Low20)
    IN  [sl_atr |-> IF df.ATR > 0 THEN close_price - 2 * Price(df.ATR)
                    ELSE df.Close * 900,
         sl_ma |-> Price(df.MA20),
         sl_key |-> sl_low,
         sl_low |-> sl_low]

\* The entry decision as a record of the locals it sets.
EntryLocals(active, actionable, code, low, high, basis, text, method) ==
    [optimizer_active |-> active, is_actionable |-> actionable, code |-> code,
     rec_entry_low |-> low, rec_entry_high |-> high, entry_basis |-> basis,
     strategy |-> text, rec_sl_method |-> method]

\* Lines 195-232: the entry decision that follows the scenario.
ScenarioEntry(df, scenario) ==
    LET close_price == Price(df.Close)
        ma5  == Price(df.MA5)
        ma10 == Price(df.MA10)
        ma20 == Price(df.MA20)
        ma60 == Price(df.MA60)
        sl_low == Price(df.Low20)
    IN  IF scenario = "A"
        THEN IF close_price * 100 > ma5 * 105
             THEN EntryLocals(FALSE, TRUE, "A", ma10, ma5, ma5, "A_wait_pullback", "ATR")
             ELSE EntryLocals(FALSE, TRUE, "A", ma5, close_price, close_price,
                              "A_active", "ATR")
        ELSE IF scenario = "B"
        THEN LET support == IF ma60 < ma20 THEN df.MA60 ELSE df.MA20
             IN  EntryLocals(FALSE, TRUE, "B", support * 980, support * 1020,
                             Price(support), "B_wait_signal", "ATR")
        ELSE IF scenario = "C"
        THEN LET bb_lo == Price(df.BB_Lo)
                 high == IF bb_lo > sl_low THEN bb_lo ELSE df.Low20 * 1020
             IN  EntryLocals(FALSE, TRUE, "C", df.Low20 * 990, high, high,
                             "C_rebound", "SwingLow")
        ELSE IF scenario = "D"
        THEN EntryLocals(FALSE, FALSE, "D", 0, 0, close_price, "D_stay_out", "ATR")
        ELSE EntryLocals(FALSE, FALSE, scenario, 0, 0, close_price, "N_wait", "ATR")

\* The entry decision of a planner that ignores the stored thresholds.
PlanEntryNoOverride(df, scenario, trigger_score, strategy_params) ==
    ScenarioEntry(df, scenario)

\* Lines 147-232: actionability, the entry zone and the entry basis.  The
\* optimizer's thresholds, when there are any, come first.
PlanEntry(df, scenario, trigger_score, strategy_params) ==
    LET close_price == Price(df.Close)
        supplied == DOMAIN strategy_params # {}
        buy_th  == P(Get(strategy_params, "buy", 3))
        sell_th == P(Get(strategy_params, "sell", -2))
    IN  IF supplied /\ trigger_score >= buy_th
        THEN EntryLocals(TRUE, TRUE, "A", df.Close * 990, df.Close * 1010, close_price,
                         "optimizer_buy", "ATR")
        ELSE IF supplied /\ trigger_score <= sell_th
        THEN EntryLocals(TRUE, FALSE, "D", 0, 0, close_price, "optimizer_sell", "ATR")
        ELSE ScenarioEntry(df, scenario)

\* Lines 234-261: the stop candidates with a positive price, each with its
\* distance from the entry basis in percent (hundredths; "inf" when the
\* entry basis is 0 and the float division overflows), sorted by price,
\* highest first.
StopList(df, entry_basis) ==
    LET sl == StopLevels(df)
        sl_candidates ==
            << [method |-> "A_ATR", price |-> sl.sl_atr],
               [method |-> "B_MA", price |-> sl.sl_ma],
               [method |-> "C_KeyCandle", price |-> sl.sl_key],
               [method |-> "D_SwingLow", price |-> sl.sl_low] >>
        shown == SelectSeq(sl_candidates, LAMBDA item : item.price > 0)
        final == [k \in DOMAIN shown |->
                     [method |-> shown[k].method,
                      price |-> shown[k].price,
                      broken |-> shown[k].price - entry_basis > 0,
                      loss |-> IF entry_basis > 0
                               THEN IF shown[k].price >= entry_basis
                                    THEN RoundPct(shown[k].price - entry_basis, entry_basis)
                                    ELSE -RoundPct(entry_basis - shown[k].price, entry_basis)
                               ELSE "inf"]]
    IN  SortByPrice(final, -1)

\* Lines 301-321: the target candidates above entry_basis * 1.02, lowest
\* first.
ValidTargets(df, entry_basis) ==
    LET recent_high_20 == Price(df.High20)
        recent_low_20 == Price(df.Low20)
        bb_up == Price(df.BB_Up)
        ma60 == Price(df.MA60)
        ma120 == Price(df.MA120)
        ma240 == Price(df.MA240)
        tp_candidates ==
            << [method |-> "N_measure", price |-> entry_basis + (recent_high_20 - recent_low_20)],
               [method |-> "Fib_1618", price |-> entry_basis + (df.High20 - df.Low20) * 1618] >>
            \o (IF ma60 > entry_basis THEN <<[method |-> "MA60", price |-> ma60]>> ELSE <<>>)
            \o (IF ma120 > entry_basis THEN <<[method |-> "MA120", price |-> ma120]>> ELSE <<>>)
            \o (IF ma240 > entry_basis THEN <<[method |-> "MA240", price |-> ma240]>> ELSE <<>>)
            \o (IF bb_up > entry_basis THEN <<[method |-> "BB_Up", price |-> bb_up]>> ELSE <<>>)
            \o (IF recent_high_20 > entry_basis
                THEN <<[method |-> "High20", price |-> recent_high_20]>> ELSE <<>>)
        valid_candidates ==
            SelectSeq(tp_candidates, LAMBDA t : t.price * 100 > entry_basis * 102)
    IN  SortByPrice(valid_candidates, 1)

\* next((t for t in list if name in t['method']), None): the method found,
\* "" when there is none.
Preferred(list, name) ==
    IF \E k \in DOMAIN list : list[k].method = name THEN name ELSE ""

\* Lines 323-334 with the scenario's preference forgotten: nothing is
\* preferred, so the lowest valid candidate is always the one recommended.
RecMethodNameNone(valid_candidates, code) == ""

\* Lines 323-334: the method the scenario prefers, "" when it prefers none
\* or the preferred one is not valid.
RecMethodName(valid_candidates, code) ==
    IF valid_candidates = <<>> THEN ""
    ELSE IF code = "A"
    THEN IF Preferred(valid_candidates, "Fib_1618") # ""
         THEN "Fib_1618"
         ELSE Preferred(valid_candidates, "N_measure")
    ELSE IF code = "B" THEN Preferred(valid_candidates, "BB_Up")
    ELSE ""

\* Lines 336-353: the target list with its recommendation flags.
TargetList(valid_candidates, code, entry_basis) ==
    LET rec_method_name == RecMethodName(valid_candidates, code)
        final_tp_list == [k \in DOMAIN valid_candidates |->
                             [method |-> valid_candidates[k].method,
                              price |-> valid_candidates[k].price,
                              is_rec |-> valid_candidates[k].method = rec_method_name]]
    IN  IF final_tp_list = <<>>
        THEN <<[method |-> "Fallback", price |-> (entry_basis * 11) \div 10, is_rec |-> TRUE]>>
        ELSE IF ~ \E k \in DOMAIN final_tp_list : final_tp_list[k].is_rec
        THEN [final_tp_list EXCEPT ![1].is_rec = TRUE]
        ELSE final_tp_list

\* Lines 336-353: rec_tp_price, the price of the last flagged item (0 when
\* none is flagged).
RECURSIVE RecTpPrice(_)
RecTpPrice(tp_list) ==
    IF tp_list = <<>> THEN 0
    ELSE IF tp_list[Len(tp_list)].is_rec THEN tp_list[Len(tp_list)].price
    ELSE RecTpPrice(SubSeq(tp_list, 1, Len(tp_list) - 1))

\* Line 284: the recommended stop, measured from the entry basis.
RecSlPrice(df, entry_basis) ==
    IF df.ATR > 0 THEN entry_basis - 2 * Price(df.ATR) ELSE (entry_basis * 9) \div 10

\* Lines 286-299: the method name as the UI spells it.
RecSlMethod(rec_sl_method) ==
    IF rec_sl_method = "ATR" THEN "A_ATR"
    ELSE IF rec_sl_method = "SwingLow" THEN "D_SwingLow"
    ELSE "A_ATR"

FracZero == Frac(0, 1)

\* The ratio computed whenever the risk is not 0.
RiskRewardNoGuard(is_actionable, entry_basis, rec_sl_price, rec_tp_price) ==
    IF is_actionable /\ entry_basis - rec_sl_price > 0
    THEN Frac(rec_tp_price - entry_basis, entry_basis - rec_sl_price)
    ELSE FracZero

\* Lines 357-363: the risk-reward ratio.
RiskReward(is_actionable, entry_basis, rec_sl_price, rec_tp_price) ==
    IF is_actionable /\ entry_basis > 0 /\ rec_sl_price > 0
       /\ entry_basis - rec_sl_price > 0
    THEN Frac(rec_tp_price - entry_basis, entry_basis - rec_sl_price)
    ELSE FracZero

\* A not-actionable plan that still reports the entry zone it has computed.
WatchPlanKeepsZone(df, e, sl_list) ==
    LET sl == StopLevels(df)
    IN  [current_price |-> Price(df.Close), strategy |-> e.strategy,
         is_actionable |-> FALSE,
         rec_entry_low |-> Price(df.MA5), rec_entry_high |-> Price(df.Close),
         rec_tp_price |-> 0, rec_sl_price |-> 0,
         tp_list |-> <<>>, sl_list |-> sl_list, rec_sl_method |-> "N/A",
         sl_atr |-> sl.sl_atr, sl_ma |-> sl.sl_ma, sl_key_candle |-> sl.sl_low,
         sl_low |-> sl.sl_low]

\* Lines 263-278: the plan returned when the entry decision e is not
\* actionable.  It has no rr_ratio key.
WatchPlan(df, e, sl_list) ==
    LET sl == StopLevels(df)
    IN  [current_price |-> Price(df.Close), strategy |-> e.strategy,
         is_actionable |-> FALSE,
         rec_entry_low |-> 0, rec_entry_high |-> 0,
         rec_tp_price |-> 0, rec_sl_price |-> 0,
         tp_list |-> <<>>, sl_list |-> sl_list, rec_sl_method |-> "N/A",
         sl_atr |-> sl.sl_atr, sl_ma |-> sl.sl_ma, sl_key_candle |-> sl.sl_low,
         sl_low |-> sl.sl_low]

\* Lines 280-382: the plan returned when the entry decision e is actionable.
TradePlan(df, e, sl_list) ==
    LET sl == StopLevels(df)
        rec_sl_price == RecSlPrice(df, e.entry_basis)
        tp_list == TargetList(ValidTargets(df, e.entry_basis), e.code, e.entry_basis)
        rec_tp_price == RecTpPrice(tp_list)
    IN  [current_price |-> Price(df.Close), strategy |-> e.strategy,
         is_actionable |-> TRUE,
         rec_entry_low |-> e.rec_entry_low, rec_entry_high |-> e.rec_entry_high,
         rec_sl_method |-> RecSlMethod(e.rec_sl_method),
         rec_sl_price |-> rec_sl_price,
         rec_tp_price |-> rec_tp_price,
         rr_ratio |-> RiskReward(e.is_actionable, e.entry_basis, rec_sl_price, rec_tp_price),
         tp_list |-> tp_list, sl_list |-> sl_list,
         sl_atr |-> sl.sl_atr, sl_ma |-> sl.sl_ma, sl_key_candle |-> sl.sl_key,
         sl_low |-> sl.sl_low]

\* Python's None, returned in place of a plan.
NoPlan == <<>>

\* _generate_action_plan(df, scenario, trigger_score).
ActionPlan(df, scenario, trigger_score, strategy_params) ==
    IF df.bars < 20 THEN NoPlan
    ELSE LET e == PlanEntry(df, scenario, trigger_score, strategy_params)
             sl_list == StopList(df, e.entry_basis)
         IN  IF ~ e.is_actionable THEN WatchPlan(df, e, sl_list)
             ELSE TradePlan(df, e, sl_list)

\* action_plan.get('rr_ratio', 0), as the report and the page read it.
RrRatio(plan) == IF "rr_ratio" \in DOMAIN plan THEN plan.rr_ratio ELSE FracZero

InitPlan ==
    /\ EngineIdle
    /\ os = <<>>
    /\ analyzer \in [df_day : DaySeries \cup ShortDaySeries, scenario : ScenarioCodes,
                     trigger_score : TriggerScores, strategy_params : StrategyParams]
    /\ result = <<>>
    /\ local = <<>>

GenerateActionPlan ==
    /\ pc = "analysis"
    /\ result = <<>>
    /\ "df_day" \in DOMAIN analyzer
    /\ result' = <<ActionPlan(analyzer.df_day, analyzer.scenario, analyzer.trigger_score,
                              analyzer.strategy_params)>>
    /\ UNCHANGED <<os, analyzer, local, closes, scores, self, pc, i, buy_threshold, sell_threshold,
                   res, opt, opt_out, trial>>

NextPlan == GenerateActionPlan

SpecPlan == InitPlan /\ [][NextPlan]_vars

\* ------------------------------------------------------------- divergence
\* The look-back window of _detect_divergence (the parameter window, 40 by
\* default), scaled down: the shortest series with room for two pivots of a
\* kind is 7 bars long.
Window == 8
\* order of _detect_divergence: bars compared on each side of a pivot, and
\* the radius within which an indicator pivot is matched to a price pivot.
Order == 3

Max(a, b) == IF a > b THEN a ELSE b
Min(a, b) == IF a < b THEN a ELSE b

\* scipy.signal.argrelextrema(x, comparator, order)[0]: the positions whose
\* value compares strictly with the values up to order positions away on
\* both sides, positions beyond an end being taken as that end (mode
\* 'clip'), so the first and the last position are never extrema.  sign is
\* 1 for np.greater and -1 for np.less.  Positions are counted from 1.
ArgRelExtrema(x, sign, order) ==
    {n \in DOMAIN x :
        \A shift \in 1..order :
            /\ sign * x[n] > sign * x[Min(n + shift, Len(x))]
            /\ sign * x[n] > sign * x[Max(n - shift, 1)]}

\* The last and the last but one element of a non-empty set of positions.
Last(idx) == CHOOSE n \in idx : \A m \in idx : m <= n
LastButOne(idx) == Last(idx \ {Last(idx)})

\* The strength test with the thresholds taken as inclusive (a move of
\* exactly 3% and of exactly 10% counts as strong).
StrongMoveInclusive(price_move, p1_price, ind_move, ind1_val) ==
    /\ price_move * 100 >= 3 * p1_price
    /\ ind1_val # 0
    /\ ind_move * 100 >= 10 * Abs(ind1_val)

\* Lines 1358-1362 and 1393-1397: price_move / p1_price * 100 > 3 and
\* ind_move / abs(ind1_val) * 100 > 10, the latter percentage being 0 when
\* ind1_val is 0.  Prices are positive.
StrongMove(price_move, p1_price, ind_move, ind1_val) ==
    /\ price_move * 100 > 3 * p1_price
    /\ ind1_val # 0
    /\ ind_move * 100 > 10 * Abs(ind1_val)

\* Lines 1336-1350 and 1373-1385: the two most recent price pivots and the
\* indicator pivots matched to them; matched is FALSE when one of them has
\* no indicator pivot in its range.
MatchPivots(price_idx, ind_idx, order) ==
    LET p1_idx == LastButOne(price_idx)
        p2_idx == Last(price_idx)
        ind1_candidates == {n \in ind_idx : n <= p1_idx + order /\ n >= Max(1, p1_idx - order)}
        ind2_candidates == {n \in ind_idx : n <= p2_idx + order
                                             /\ n >= Max(p1_idx, p2_idx - order)}
        matched == ind1_candidates # {} /\ ind2_candidates # {}
    IN  [p1_idx |-> p1_idx, p2_idx |-> p2_idx, matched |-> matched,
         ind1_idx |-> IF matched THEN Last(ind1_candidates) ELSE p1_idx,
         ind2_idx |-> IF matched THEN Last(ind2_candidates) ELSE p2_idx]

\* Lines 1334-1368 (sign = -1, troughs of Low, kind "bull") and 1371-1403
\* (sign = 1, peaks of High, kind "bear"): the divergence of one kind, or
\* "none".  A standard divergence is a price pivot beyond the previous one
\* (lower low, higher high) with an indicator pivot short of the previous
\* one; a weak (hidden) divergence is the opposite pair.
DivergenceOfKind(prices, indicator, sign, kind, order) ==
    LET price_idx == ArgRelExtrema(prices, sign, order)
        ind_idx == ArgRelExtrema(indicator, sign, order)
    IN  IF Cardinality(price_idx) >= 2 /\ Cardinality(ind_idx) >= 2
        THEN LET m == MatchPivots(price_idx, ind_idx, order)
                 p1_price == prices[m.p1_idx]
                 p2_price == prices[m.p2_idx]
                 ind1_val == indicator[m.ind1_idx]
                 ind2_val == indicator[m.ind2_idx]
             IN  IF ~ m.matched THEN "none"
                 ELSE IF sign * p2_price > sign * p1_price /\ sign * ind2_val < sign * ind1_val
                 THEN IF StrongMove(sign * (p2_price - p1_price), p1_price,
                                    sign * (ind1_val - ind2_val), ind1_val)
                      THEN kind \o "_strong"
                      ELSE kind
                 ELSE IF sign * p2_price < sign * p1_price /\ sign * ind2_val > sign * ind1_val
                 THEN kind \o "_weak"
                 ELSE "none"
        ELSE "none"

\* The last window elements of a series (df.iloc[-window:]).
Tail_(x, window) == SubSeq(x, Len(x) - window + 1, Len(x))

\* _detect_divergence(df, indicator_name, window): bottoms first, tops when
\* no bottom divergence was returned.
DetectDivergence(df, indicator_name, window) ==
    IF Len(df.Low) < window \/ indicator_name \notin DOMAIN df.columns THEN "none"
    ELSE LET prices_low == Tail_(df.Low, window)
             prices_high == Tail_(df.High, window)
             indicator == Tail_(df.columns[indicator_name], window)
             bottoms == DivergenceOfKind(prices_low, indicator, -1, "bull", Order)
         IN  IF bottoms # "none" THEN bottoms
             ELSE DivergenceOfKind(prices_high, indicator, 1, "bear", Order)

\* A series of n bars at the level base except at positions p1 and p2.
Spiked(n, base, p1, v1, p2, v2) ==
    [k \in 1..n |-> IF k = p2 THEN v2 ELSE IF k = p1 THEN v1 ELSE base]

Shifted(x, d) == [k \in DOMAIN x |-> x[k] + d]

\* The series explored have up to two spikes on a flat background: dips for
\* the search of bottoms, bumps for the search of tops.
\* Price: Low dips from 105 (a drop of exactly 3% is 100 to 97) or High bumps
\* from 95 (a rise of exactly 3% is 100 to 103); a bar's range is 5.
\* Indicator: dips from 5 (a rise of exactly 10% is -10 to -9) or bumps from
\* -5 (a drop of exactly 10% is 20 to 18); 0 is among the pivot values.
PriceDips == {90, 97, 100}
PriceBumps == {100, 103, 110}
IndicatorDips == {-10, -9, 0, 2}
IndicatorBumps == {-2, 0, 18, 20}

DippedPrices(n, p1, v1, p2, v2) ==
    LET s == Spiked(n, 105, p1, v1, p2, v2) IN [Low |-> s, High |-> Shifted(s, 5)]
BumpedPrices(n, p1, v1, p2, v2) ==
    LET s == Spiked(n, 95, p1, v1, p2, v2) IN [Low |-> Shifted(s, -5), High |-> s]

\* Two spike positions with their values, each series being named once.
Spikes(n, values) ==
    {s \in [p1 : 1..n, v1 : values, p2 : 1..n, v2 : values] :
        s.p1 < s.p2 \/ (s.p1 = s.p2 /\ s.v1 = s.v2)}

\* The daily series handed to _detect_divergence: Low, High and one
\* indicator column, n bars long.
DivergenceInput(n, dips, price, ind, column) ==
    LET p == IF dips THEN DippedPrices(n, price.p1, price.v1, price.p2, price.v2)
             ELSE BumpedPrices(n, price.p1, price.v1, price.p2, price.v2)
        c == Spiked(n, IF dips THEN 5 ELSE -5, ind.p1, ind.v1, ind.p2, ind.v2)
    IN  [Low |-> p.Low, High |-> p.High, columns |-> (column :> c)]

InitDivergence ==
    /\ EngineIdle
    /\ os = <<>>
    /\ \E dips \in BOOLEAN :
         \E price \in Spikes(Window, IF dips THEN PriceDips ELSE PriceBumps),
            ind \in Spikes(Window, IF dips THEN IndicatorDips ELSE IndicatorBumps) :
           \/ analyzer = [df |-> DivergenceInput(Window, dips, price, ind, "MACD"),
                          indicator_name |-> "MACD", window |-> Window]
           \* a series shorter than the window, and one without the column
           \/ /\ price.p1 = 2 /\ price.p2 = 6 /\ ind.p1 = 2 /\ ind.p2 = 6
              /\ \/ analyzer = [df |-> DivergenceInput(Window - 1, dips, price, ind, "MACD"),
                                indicator_name |-> "MACD", window |-> Window]
                 \/ analyzer = [df |-> DivergenceInput(Window, dips, price, ind, "RSI"),
                                indicator_name |-> "MACD", window |-> Window]
    /\ result = <<>>
    /\ local = <<>>

CallDetectDivergence ==
    /\ pc = "analysis"
    /\ result = <<>>
    /\ "indicator_name" \in DOMAIN analyzer
    /\ result' = <<DetectDivergence(analyzer.df, analyzer.indicator_name, analyzer.window)>>
    /\ UNCHANGED <<os, analyzer, local, closes, scores, self, pc, i, buy_threshold, sell_threshold,
                   res, opt, opt_out, trial>>

NextDivergence == CallDetectDivergence

SpecDivergence == InitDivergence /\ [][NextDivergence]_vars

\* ----------------------------------------------------------- chip factors
\* Python's None for chip_data, us_chip_data and the frames inside chip_data.
NoData == <<>>

\* weight_multiplier, doubled: 1.5, 0.5 or 1.0 (lines 487-495 and 670-678).
WeightMultiplier2(trend_score) ==
    IF trend_score >= P(3) THEN 3
    ELSE IF trend_score <= -P(2) THEN 1
    ELSE 2

\* base * weight_multiplier, for a base in hundredths of a point.
Weighted(base, trend_score) == (base * WeightMultiplier2(trend_score)) \div 2

\* A sub-score: what is added to the score and the message appended.
Sub(score, message) == [score |-> score, details |-> <<message>>]
NoSub == [score |-> 0, details |-> <<>>]

\* The sum of the last n elements of a series (series.iloc[-n:].sum()).
RECURSIVE SumLast(_, _)
SumLast(series, n) ==
    IF n = 0 \/ series = <<>> THEN 0
    ELSE series[Len(series)] + SumLast(SubSeq(series, 1, Len(series) - 1), n - 1)

\* Lines 498-564: institutional flow over the last 5 rows.  Volumes are in
\* lots of 1000 shares, so the amount in millions is lots * price / 1000.
InstitutionalFlow(chip_data, df, trend_score) ==
    LET df_inst == chip_data.institutional
    IN  IF df_inst = NoData \/ df.empty THEN NoSub
        ELSE
          LET foreign_lots == IF "foreign" \in DOMAIN df_inst
                              THEN SumLast(df_inst.foreign, 5) ELSE 0
              trust_lots == IF "trust" \in DOMAIN df_inst
                            THEN SumLast(df_inst.trust, 5) ELSE 0
              total_buy_lots == foreign_lots + trust_lots
              is_significant ==
                  \/ Abs(total_buy_lots) * df.Close > 50 * 1000
                  \/ df.Volume5 > 0 /\ Abs(total_buy_lots) * 100 > 15 * df.Volume5
              base_score ==
                  IF total_buy_lots > 0 /\ is_significant
                  THEN (IF foreign_lots > 0 /\ trust_lots > 0 THEN 150 ELSE 100)
                  ELSE IF total_buy_lots < 0 /\ is_significant
                  THEN (IF foreign_lots < 0 /\ trust_lots < 0 THEN -150 ELSE -100)
                  ELSE 0
          IN  IF base_score = 0 THEN NoSub
              ELSE Sub(Weighted(base_score, trend_score),
                       IF total_buy_lots > 0 THEN "inst_buy" ELSE "inst_sell")

\* The margin penalty weighted like every other sub-score.
MarginUtilisationRegimeWeight(chip_data, df, trend_score) ==
    LET df_margin == chip_data.margin
    IN  IF df_margin = NoData \/ df_margin.lim <= 0 THEN NoSub
        ELSE IF df_margin.bal * 100 > 60 * df_margin.lim
        THEN Sub(Weighted(-100, trend_score), "margin_hot")
        ELSE IF df_margin.bal * 100 < 20 * df_margin.lim /\ trend_score >= P(1)
        THEN Sub(Weighted(50, trend_score), "margin_low")
        ELSE NoSub

\* Lines 566-584: margin utilisation.  Above 60% the penalty has a weight
\* of its own: 1.5 when trend_score <= -2 and 1.0 otherwise.
MarginUtilisation(chip_data, df, trend_score) ==
    LET df_margin == chip_data.margin
    IN  IF df_margin = NoData \/ df_margin.lim <= 0 THEN NoSub
        ELSE IF df_margin.bal * 100 > 60 * df_margin.lim
        THEN Sub(IF trend_score <= -P(2) THEN -150 ELSE -100, "margin_hot")
        ELSE IF df_margin.bal * 100 < 20 * df_margin.lim /\ trend_score >= P(1)
        THEN Sub(Weighted(50, trend_score), "margin_low")
        ELSE NoSub

\* Lines 586-607: the day-trading rate of the last bar; has_row says whether
\* the frame has a row for the last date.
DayTradingRate(chip_data, df, trend_score) ==
    LET df_dt == chip_data.day_trading
    IN  IF df_dt = NoData \/ df.empty \/ ~ df_dt.has_row \/ df.Volume <= 0 THEN NoSub
        ELSE IF df_dt.DayTradingVolume * 100 > 50 * df.Volume
        THEN Sub(Weighted(-50, trend_score), "day_trading_high")
        ELSE IF df_dt.DayTradingVolume * 100 < 15 * df.Volume /\ trend_score >= P(2)
        THEN Sub(Weighted(30, trend_score), "day_trading_low")
        ELSE NoSub

\* Lines 615-626: the loop over the series from the most recent value back.
RECURSIVE Consecutive(_, _, _)
Consecutive(series, buy, sell) ==
    IF series = <<>> THEN [buy |-> buy, sell |-> sell]
    ELSE LET val == series[Len(series)]
             rest == SubSeq(series, 1, Len(series) - 1)
         IN  IF val > 0
             THEN (IF sell > 0 THEN [buy |-> buy + 1, sell |-> sell]
                   ELSE Consecutive(rest, buy + 1, sell))
             ELSE IF val < 0
             THEN (IF buy > 0 THEN [buy |-> buy, sell |-> sell + 1]
                   ELSE Consecutive(rest, buy, sell + 1))
             ELSE [buy |-> buy, sell |-> sell]

LastRows(series, n) == SubSeq(series, Max(1, Len(series) - n + 1), Len(series))

\* Lines 609-635: the foreign buying or selling streak over the last 10 rows.
Streak(chip_data, df, trend_score) ==
    LET df_inst == chip_data.institutional
    IN  IF df_inst = NoData \/ "foreign" \notin DOMAIN df_inst THEN NoSub
        ELSE LET c == Consecutive(LastRows(df_inst.foreign, 10), 0, 0)
             IN  IF c.buy >= 5 THEN Sub(Weighted(50, trend_score), "streak_buy")
                 ELSE IF c.sell >= 5 THEN Sub(Weighted(-50, trend_score), "streak_sell")
                 ELSE NoSub

\* Lines 681-697: the share held by institutions, in percent.
UsHeld(us_chip_data, trend_score) ==
    LET inst_pct == us_chip_data.institutional.percent_held
    IN  IF inst_pct > 80 THEN Sub(Weighted(150, trend_score), "held_very_high")
        ELSE IF inst_pct > 60 THEN Sub(Weighted(100, trend_score), "held_high")
        ELSE IF inst_pct < 20 THEN Sub(Weighted(-50, trend_score), "held_low")
        ELSE NoSub

\* Lines 699-707: the change of the institutional holding.
UsHeldChange(us_chip_data, trend_score) ==
    LET inst_change == us_chip_data.institutional.change_vs_prior
    IN  IF inst_change > 5 THEN Sub(Weighted(100, trend_score), "held_up")
        ELSE IF inst_change < -5 THEN Sub(Weighted(-100, trend_score), "held_down")
        ELSE NoSub

\* Lines 709-720: short interest; between 10% and 20% only a message.
UsShortPercent(us_chip_data, trend_score) ==
    LET short_pct == us_chip_data.short_interest.short_percent_of_float
    IN  IF short_pct > 20 /\ trend_score >= P(2)
        THEN Sub(Weighted(100, trend_score), "short_squeeze")
        ELSE IF short_pct > 10 THEN Sub(0, "short_high_info")
        ELSE NoSub

\* Lines 722-725: days to cover.
UsShortRatio(us_chip_data, trend_score) ==
    IF us_chip_data.short_interest.short_ratio > 5 /\ trend_score >= P(1)
    THEN Sub(Weighted(50, trend_score), "short_ratio_high")
    ELSE NoSub

\* Lines 727-733: the change of the short interest.
UsShortChange(us_chip_data, trend_score) ==
    LET short_change == us_chip_data.short_interest.short_change_pct
    IN  IF short_change < -20 THEN Sub(Weighted(50, trend_score), "short_covered")
        ELSE IF short_change > 20 THEN Sub(Weighted(-50, trend_score), "short_grown")
        ELSE NoSub

\* Lines 735-756: insider trades.
UsInsider(us_chip_data, trend_score) ==
    LET insider == us_chip_data.insider_trades
    IN  IF insider.sentiment = "bullish" /\ insider.buy_count > 3
        THEN Sub(Weighted(150, trend_score), "insider_buying_hard")
        ELSE IF insider.sentiment = "bullish"
        THEN Sub(Weighted(50, trend_score), "insider_buying")
        ELSE IF insider.sentiment = "bearish" /\ insider.sell_count > 5
        THEN Sub(Weighted(-150, trend_score), "insider_selling_hard")
        ELSE IF insider.sentiment = "bearish"
        THEN Sub(Weighted(-50, trend_score), "insider_selling")
        ELSE NoSub

\* Lines 758-774: the analysts' recommendation and the upside to their target.
UsAnalyst(us_chip_data, trend_score) ==
    LET recs == us_chip_data.recommendations
    IN  IF recs.recommendation \in {"strong_buy", "buy"} /\ recs.upside > 20
        THEN Sub(Weighted(100, trend_score), "analyst_buy")
        ELSE IF recs.recommendation \in {"sell", "strong_sell"}
        THEN Sub(Weighted(-100, trend_score), "analyst_sell")
        ELSE IF recs.upside > 30 THEN Sub(Weighted(50, trend_score), "upside_large")
        ELSE IF recs.upside < -10 THEN Sub(Weighted(-50, trend_score), "downside")
        ELSE NoSub

\* The sub-scores in the order the code adds them.
DomesticSteps == <<"institutional", "margin", "day_trading", "streak">>
UsSteps == <<"held", "held_change", "short_percent", "short_ratio", "short_change",
             "insider", "analyst">>
ChipSteps(an) == IF an.is_us_stock THEN UsSteps ELSE DomesticSteps

\* The sub-score of one step for the analyzer an (its fields and the
\* arguments df and trend_score of the call).
ChipSubScore(an, step) ==
    CASE step = "institutional" -> InstitutionalFlow(an.chip_data, an.df, an.trend_score)
      [] step = "margin" -> MarginUtilisation(an.chip_data, an.df, an.trend_score)
      [] step = "day_trading" -> DayTradingRate(an.chip_data, an.df, an.trend_score)
      [] step = "streak" -> Streak(an.chip_data, an.df, an.trend_score)
      [] step = "held" -> UsHeld(an.us_chip_data, an.trend_score)
      [] step = "held_change" -> UsHeldChange(an.us_chip_data, an.trend_score)
      [] step = "short_percent" -> UsShortPercent(an.us_chip_data, an.trend_score)
      [] step = "short_ratio" -> UsShortRatio(an.us_chip_data, an.trend_score)
      [] step = "short_change" -> UsShortChange(an.us_chip_data, an.trend_score)
      [] step = "insider" -> UsInsider(an.us_chip_data, an.trend_score)
      [] step = "analyst" -> UsAnalyst(an.us_chip_data, an.trend_score)

\* The inputs explored.  Daily series: the last Close, the last Volume and
\* the mean Volume of the last 5 bars (lots).
ChipDaySeries == [empty : {FALSE}, Close : {50, 600}, Volume : {1000}, Volume5 : {1000}]
\* Net buying per day, in lots: ten rows of foreign investors, five of trusts.
ForeignRows ==
    { <<40, 40, 40, 40, 40, 40, 40, 40, 40, 40>>,
      <<40, 40, 40, 40, 40, -60, -60, -60, -60, -60>>,
      <<40, 40, 40, 40, 40, 40, 40, 0, 100, 100>>,
      <<0, 0, 0, 0, 0, 0, 0, 0, 0, 0>> }
TrustRows == { <<20, 20, 20, 20, 20>>, <<0, 0, 0, 0, 0>>, <<-20, -20, -20, -20, -20>> }
MarginRows == {NoData, [lim |-> 0, bal |-> 10], [lim |-> 100, bal |-> 10],
               [lim |-> 100, bal |-> 60], [lim |-> 100, bal |-> 70]}
DayTradingRows == {NoData, [has_row |-> FALSE, DayTradingVolume |-> 600],
                   [has_row |-> TRUE, DayTradingVolume |-> 100],
                   [has_row |-> TRUE, DayTradingVolume |-> 500],
                   [has_row |-> TRUE, DayTradingVolume |-> 600]}
ChipData ==
    [institutional : [foreign : ForeignRows, trust : TrustRows],
     margin : MarginRows, day_trading : DayTradingRows]
UsChipData ==
    [institutional : [percent_held : {10, 50, 70, 90}, change_vs_prior : {-10, 0, 10}],
     short_interest : [short_percent_of_float : {5, 25}, short_ratio : {2, 6},
                       short_change_pct : {-30, 0, 30}],
     insider_trades : {[sentiment |-> "bullish", buy_count |-> 4, sell_count |-> 0],
                       [sentiment |-> "bullish", buy_count |-> 2, sell_count |-> 0],
                       [sentiment |-> "neutral", buy_count |-> 0, sell_count |-> 0],
                       [sentiment |-> "bearish", buy_count |-> 0, sell_count |-> 6],
                       [sentiment |-> "bearish", buy_count |-> 0, sell_count |-> 2]},
     recommendations : {[recommendation |-> "buy", upside |-> 25],
                        [recommendation |-> "buy", upside |-> 10],
                        [recommendation |-> "sell", upside |-> 0],
                        [recommendation |-> "hold", upside |-> 40],
                        [recommendation |-> "hold", upside |-> -20],
                        [recommendation |-> "hold", upside |-> 0]}]
\* What USStockChipAnalyzer.get_chip_data can deliver when the analyzer was
\* built without US chip data.
LoadedUsChipData ==
    [institutional : {[percent_held |-> 90, change_vs_prior |-> 10]},
     short_interest : {[short_percent_of_float |-> 25, short_ratio |-> 6,
                        short_change_pct |-> 30]},
     insider_trades : {[sentiment |-> "bearish", buy_count |-> 0, sell_count |-> 6]},
     recommendations : {[recommendation |-> "buy", upside |-> 25]}]
ChipTrendScores == {-250, -200, 50, 100, 200, 300}

InitChip ==
    /\ EngineIdle
    /\ os = <<>>
    /\ \E df \in ChipDaySeries, trend_score \in ChipTrendScores :
          \/ \E chip_data \in ChipData \cup {NoData} :
                analyzer = [is_us_stock |-> FALSE, chip_data |-> chip_data,
                            us_chip_data |-> NoData, df |-> df, trend_score |-> trend_score]
          \/ /\ df.Close = 50
             /\ \E us_chip_data \in UsChipData \cup {NoData} :
                   analyzer = [is_us_stock |-> TRUE, chip_data |-> NoData,
                               us_chip_data |-> us_chip_data, df |-> df,
                               trend_score |-> trend_score]
    /\ result = <<>>
    /\ local = <<>>

\* _analyze_chip_factors is entered: the early returns, the load of the US
\* data the analyzer was built without, and the start of the scoring.
CallChipFactors ==
    /\ pc = "analysis"
    /\ result = <<>>
    /\ local = <<>>
    /\ IF analyzer.is_us_stock /\ analyzer.us_chip_data = NoData
       THEN \/ \E loaded \in LoadedUsChipData :
                  /\ analyzer' = [analyzer EXCEPT !.us_chip_data = loaded]
                  /\ local' = [step |-> 1, score |-> 0, details |-> <<>>]
                  /\ result' = result
            \/ /\ analyzer' = analyzer
               /\ local' = local
               /\ \/ result' = <<[score |-> 0, details |-> <<"us_chip_unavailable">>]>>
                  \/ result' = <<[score |-> 0, details |-> <<>>]>>
       ELSE IF ~ analyzer.is_us_stock /\ analyzer.chip_data = NoData
       THEN /\ result' = <<[score |-> 0, details |-> <<>>]>>
            /\ UNCHANGED <<os, analyzer, local>>
       ELSE /\ local' = [step |-> 1, score |-> 0, details |-> <<>>]
            /\ UNCHANGED <<os, analyzer, result>>
    /\ UNCHANGED <<os, closes, scores, self, pc, i, buy_threshold, sell_threshold,
                   res, opt, opt_out, trial>>

\* The next sub-score is computed and added.
ChipStep ==
    /\ pc = "analysis"
    /\ local # <<>>
    /\ local.step <= Len(ChipSteps(analyzer))
    /\ LET sub == ChipSubScore(analyzer, ChipSteps(analyzer)[local.step])
       IN  local' = [step |-> local.step + 1,
                     score |-> local.score + sub.score,
                     details |-> local.details \o sub.details]
    /\ UNCHANGED <<os, analyzer, result, closes, scores, self, pc, i, buy_threshold,
                   sell_threshold, res, opt, opt_out, trial>>

\* return score, details
ChipReturn ==
    /\ pc = "analysis"
    /\ local # <<>>
    /\ local.step > Len(ChipSteps(analyzer))
    /\ result' = <<[score |-> local.score, details |-> local.details]>>
    /\ local' = <<>>
    /\ UNCHANGED <<os, analyzer, closes, scores, self, pc, i, buy_threshold,
                   sell_threshold, res, opt, opt_out, trial>>

NextChip == CallChipFactors \/ ChipStep \/ ChipReturn

SpecChip == InitChip /\ [][NextChip]_vars

\* ----------------------------------------------------------- trigger score
\* The total of the chip sub-scores from step k on, with their messages.
RECURSIVE ChipTotalFrom(_, _)
ChipTotalFrom(an, k) ==
    IF k > Len(ChipSteps(an)) THEN NoSub
    ELSE LET sub == ChipSubScore(an, ChipSteps(an)[k])
             rest == ChipTotalFrom(an, k + 1)
         IN  [score |-> sub.score + rest.score, details |-> sub.details \o rest.details]

\* _analyze_chip_factors(df, trend_score) as one call: what it can return
\* and the us_chip_data it leaves in the analyzer.  An analyzer of a US
\* ticker built without data loads it, and the load can fail.
ChipOutcomes(an) ==
    IF an.is_us_stock /\ an.us_chip_data = NoData
    THEN {[score |-> 0, details |-> <<"us_chip_unavailable">>, us_chip_data |-> NoData],
          [score |-> 0, details |-> <<>>, us_chip_data |-> NoData]}
         \cup {[score |-> ChipTotalFrom([an EXCEPT !.us_chip_data = loaded], 1).score,
                details |-> ChipTotalFrom([an EXCEPT !.us_chip_data = loaded], 1).details,
                us_chip_data |-> loaded] : loaded \in LoadedUsChipData}
    ELSE IF ~ an.is_us_stock /\ an.chip_data = NoData
    THEN {[score |-> 0, details |-> <<>>, us_chip_data |-> an.us_chip_data]}
    ELSE {[score |-> ChipTotalFrom(an, 1).score, details |-> ChipTotalFrom(an, 1).details,
           us_chip_data |-> an.us_chip_data]}

\* The score added for a divergence of MACD or OBV that counts the hidden
\* divergences as standard ones.
DivergenceBonusNoWeakTier(div) ==
    CASE div = "bull_strong" -> Sub(P(3), "bull_strong")
      [] div = "bull" -> Sub(P(2), "bull")
      [] div = "bull_weak" -> Sub(P(2), "bull_weak")
      [] div = "bear_strong" -> Sub(-P(3), "bear_strong")
      [] div = "bear" -> Sub(-P(2), "bear")
      [] div = "bear_weak" -> Sub(-P(2), "bear_weak")
      [] OTHER -> NoSub

\* Lines 845-862 and 880-897: the score added for a divergence of MACD or
\* of OBV.
DivergenceBonus(div) ==
    CASE div = "bull_strong" -> Sub(P(3), "bull_strong")
      [] div = "bull" -> Sub(P(2), "bull")
      [] div = "bull_weak" -> Sub(P(1), "bull_weak")
      [] div = "bear_strong" -> Sub(-P(3), "bear_strong")
      [] div = "bear" -> Sub(-P(2), "bear")
      [] div = "bear_weak" -> Sub(-P(1), "bear_weak")
      [] OTHER -> NoSub

\* Lines 910-915: the score added for a divergence of RSI: 1.5 when strong,
\* 1 when standard, nothing for a hidden one.
RsiDivergenceBonus(div) ==
    CASE div = "bull_strong" -> Sub(P(1) + Half, "rsi_bull_strong")
      [] div = "bull" -> Sub(P(1), "rsi_bull")
      [] div = "bear_strong" -> Sub(-(P(1) + Half), "rsi_bear_strong")
      [] div = "bear" -> Sub(-P(1), "rsi_bear")
      [] OTHER -> NoSub

\* The steps of _calculate_trigger_score after its length test, in order.
TriggerSteps ==
    <<"ma_position", "bias", "efi", "macd_hist", "macd_divergence", "kd", "obv_trend",
      "obv_divergence", "dmi", "rsi_divergence", "kline", "morphology", "price_volume",
      "nine_turns", "chip">>

\* The last value of a column and the value n rows before the end.
Current(series) == series[Len(series)]
Back(series, n) == series[Len(series) - n + 1]

\* What one step other than the chip step adds: lines 798-949.  The two
\* "count of 8" messages of the nine-turns rule announce half a point and
\* add nothing.
TriggerSubScore(df, step) ==
    CASE step = "ma_position" ->
           IF df.Close > df.MA20 THEN Sub(P(1), "above_ma20") ELSE Sub(-P(1), "below_ma20")
      [] step = "bias" ->
           IF 0 < df.BIAS /\ df.BIAS < 10 THEN Sub(P(1), "bias_healthy")
           ELSE IF df.BIAS > 10 THEN Sub(-P(1), "bias_hot")
           ELSE IF df.BIAS < -10 THEN Sub(P(1), "bias_oversold")
           ELSE NoSub
      [] step = "efi" ->
           IF df.EFI_EMA13 > 0
           THEN IF df.EFI_EMA13 > df.prev_EFI_EMA13
                THEN [score |-> P(1) + Half, details |-> <<"efi_long", "efi_rising">>]
                ELSE Sub(P(1), "efi_long")
           ELSE Sub(-P(1), "efi_short")
      [] step = "macd_hist" ->
           IF df.Hist > 0
           THEN IF df.Hist > df.prev_Hist
                THEN [score |-> P(1) + Half, details |-> <<"hist_red", "hist_rising">>]
                ELSE Sub(P(1), "hist_red")
           ELSE Sub(-P(1), "hist_green")
      [] step = "macd_divergence" -> DivergenceBonus(DetectDivergence(df, "MACD", Window))
      [] step = "kd" ->
           IF df.K > df.D THEN Sub(P(1), "kd_golden") ELSE Sub(-P(1), "kd_dead")
      [] step = "obv_trend" ->
           IF Len(df.Low) >= 3 /\ Current(df.columns.OBV) > Back(df.columns.OBV, 3)
           THEN Sub(P(1), "obv_inflow") ELSE NoSub
      [] step = "obv_divergence" -> DivergenceBonus(DetectDivergence(df, "OBV", Window))
      [] step = "dmi" ->
           IF df.ADX > 25
           THEN (IF df.DIplus > df.DIminus THEN Sub(P(1), "dmi_long")
                 ELSE Sub(-P(1), "dmi_short"))
           ELSE NoSub
      [] step = "rsi_divergence" -> RsiDivergenceBonus(DetectDivergence(df, "RSI", Window))
      [] step = "kline" -> IF df.kline = 0 THEN NoSub ELSE Sub(df.kline, "kline_pattern")
      [] step = "morphology" ->
           IF DetectMorphology(df) = 0 THEN NoSub ELSE Sub(DetectMorphology(df), "pattern")
      [] step = "price_volume" ->
           IF AnalyzePriceVolume(df) = 0 THEN NoSub
           ELSE Sub(AnalyzePriceVolume(df), "price_volume")
      [] step = "nine_turns" ->
           LET buy == IF df.TD_Buy_Setup = 9 THEN Sub(P(2), "nine_buy")
                      ELSE IF df.TD_Buy_Setup = 8 THEN Sub(0, "eight_buy")
                      ELSE NoSub
               sell == IF df.TD_Sell_Setup = 9 THEN Sub(-P(2), "nine_sell")
                       ELSE IF df.TD_Sell_Setup = 8 THEN Sub(0, "eight_sell")
                       ELSE NoSub
           IN  [score |-> buy.score + sell.score, details |-> buy.details \o sell.details]

\* The fewest daily bars _calculate_trigger_score scores.
MinDayBars == 20

\* The inputs explored.  The daily series is MinDayBars long (or one bar
\* short); its Low, High and indicator columns are flat except for two
\* spikes inside the divergence window, dips or bumps throughout as for the
\* detector; what the other rules read of the last two bars takes a few
\* values each.
SpikeAt == <<MinDayBars - 6, MinDayBars - 2>>
TriggerPriceDips == {<<100, 90>>, <<90, 100>>}
TriggerPriceBumps == {<<100, 110>>, <<110, 100>>}
TriggerIndicatorDips == {<<-10, 0>>, <<-10, -9>>, <<0, -10>>}
TriggerIndicatorBumps == {<<20, 0>>, <<20, 18>>, <<0, 20>>}
TriggerBars == [MA20 : {48, 52}, EFI_EMA13 : {-1, 5}, Hist : {-1, 2}, K : {30, 70}]

TriggerDaySeries(n, dips, price, macd, obv, rsi, bar) ==
    LET p == IF dips THEN DippedPrices(n, SpikeAt[1], price[1], SpikeAt[2], price[2])
             ELSE BumpedPrices(n, SpikeAt[1], price[1], SpikeAt[2], price[2])
        column(v) == Spiked(n, IF dips THEN 5 ELSE -5, SpikeAt[1], v[1], SpikeAt[2], v[2])
    IN  [bars |-> n, empty |-> FALSE, Low |-> p.Low, High |-> p.High,
         columns |-> [MACD |-> column(macd), OBV |-> column(obv), RSI |-> column(rsi)],
         Close |-> 50, MA20 |-> bar.MA20, BIAS |-> 5,
         EFI_EMA13 |-> bar.EFI_EMA13, prev_EFI_EMA13 |-> 3,
         Hist |-> bar.Hist, prev_Hist |-> 1, K |-> bar.K, D |-> 50,
         ADX |-> 30, DIplus |-> 20, DIminus |-> 15,
         kline |-> 150, morph |-> 2, dClose |-> 1, dVol |-> -1,
         TD_Buy_Setup |-> 8, TD_Sell_Setup |-> 9,
         Volume |-> 1000, Volume5 |-> 1000]

\* The analyzers explored: a domestic one without chip data, a domestic one
\* with chip data in the bull regime, and a US one built without chip data.
TriggerAnalyzers ==
    {[is_us_stock |-> FALSE, chip_data |-> NoData, us_chip_data |-> NoData,
      trend_score |-> 0],
     [is_us_stock |-> FALSE,
      chip_data |-> [institutional |-> [foreign |-> <<40, 40, 40, 40, 40, 40, 40, 40, 40, 40>>,
                                        trust |-> <<20, 20, 20, 20, 20>>],
                     margin |-> [lim |-> 100, bal |-> 70],
                     day_trading |-> [has_row |-> TRUE, DayTradingVolume |-> 600]],
      us_chip_data |-> NoData, trend_score |-> 300],
     [is_us_stock |-> TRUE, chip_data |-> NoData, us_chip_data |-> NoData,
      trend_score |-> 0]}

WithSeries(an, df) ==
    [is_us_stock |-> an.is_us_stock, chip_data |-> an.chip_data,
     us_chip_data |-> an.us_chip_data, trend_score |-> an.trend_score, df |-> df]

InitTrigger ==
    /\ EngineIdle
    /\ os = <<>>
    /\ \E an \in TriggerAnalyzers, dips \in BOOLEAN, bar \in TriggerBars :
         \E price \in (IF dips THEN TriggerPriceDips ELSE TriggerPriceBumps),
            macd \in (IF dips THEN TriggerIndicatorDips ELSE TriggerIndicatorBumps),
            obv \in (IF dips THEN TriggerIndicatorDips ELSE TriggerIndicatorBumps),
            rsi \in (IF dips THEN TriggerIndicatorDips ELSE TriggerIndicatorBumps) :
           \/ analyzer = WithSeries(an, TriggerDaySeries(MinDayBars, dips, price,
                                                         macd, obv, rsi, bar))
           \/ /\ macd = obv /\ obv = rsi /\ bar.K = 70 /\ bar.Hist = 2
              /\ analyzer = WithSeries(an, TriggerDaySeries(MinDayBars - 1, dips, price,
                                                            macd, obv, rsi, bar))
    /\ result = <<>>
    /\ local = <<>>

\* _calculate_trigger_score(df, trend_score) is entered (lines 789-793).
CallTriggerScore ==
    /\ pc = "analysis"
    /\ result = <<>>
    /\ local = <<>>
    /\ IF analyzer.df.empty \/ analyzer.df.bars < MinDayBars
       THEN /\ result' = <<[score |-> 0, details |-> <<"insufficient_data">>]>>
            /\ local' = local
       ELSE /\ local' = [step |-> 1, score |-> 0, details |-> <<>>]
            /\ result' = result
    /\ UNCHANGED <<os, analyzer, closes, scores, self, pc, i, buy_threshold, sell_threshold,
                   res, opt, opt_out, trial>>

\* One of the rules 1 to 12 is applied (lines 798-949).
TriggerStep ==
    /\ pc = "analysis"
    /\ local # <<>>
    /\ local.step <= Len(TriggerSteps)
    /\ TriggerSteps[local.step] # "chip"
    /\ LET sub == TriggerSubScore(analyzer.df, TriggerSteps[local.step])
       IN  local' = [step |-> local.step + 1,
                     score |-> local.score + sub.score,
                     details |-> local.details \o sub.details]
    /\ UNCHANGED <<os, analyzer, result, closes, scores, self, pc, i, buy_threshold,
                   sell_threshold, res, opt, opt_out, trial>>

\* Rule 13: the chip factors (lines 951-954).
TriggerChipStep ==
    /\ pc = "analysis"
    /\ local # <<>>
    /\ local.step <= Len(TriggerSteps)
    /\ TriggerSteps[local.step] = "chip"
    /\ \E out \in ChipOutcomes(analyzer) :
          /\ local' = [step |-> local.step + 1,
                       score |-> local.score + out.score,
                       details |-> local.details \o out.details]
          /\ analyzer' = [analyzer EXCEPT !.us_chip_data = out.us_chip_data]
    /\ UNCHANGED <<os, result, closes, scores, self, pc, i, buy_threshold,
                   sell_threshold, res, opt, opt_out, trial>>

\* return score, details
TriggerReturn ==
    /\ pc = "analysis"
    /\ local # <<>>
    /\ local.step > Len(TriggerSteps)
    /\ result' = <<[score |-> local.score, details |-> local.details]>>
    /\ local' = <<>>
    /\ UNCHANGED <<os, analyzer, closes, scores, self, pc, i, buy_threshold,
                   sell_threshold, res, opt, opt_out, trial>>

NextTrigger == CallTriggerScore \/ TriggerStep \/ TriggerChipStep \/ TriggerReturn

SpecTrigger == InitTrigger /\ [][NextTrigger]_vars

\* ------------------------------------------------ missing indicator columns
\* A series is a record of what the rules read of it, so a column the
\* series lacks is a field the record lacks.  current['X'] raises KeyError
\* for such a column, current.get('X', 0) gives 0.
KeyError == [raised |-> "KeyError"]
Returned(score) == [score |-> score]
Has(df, column) == column \in DOMAIN df
Without(df, column) == [c \in DOMAIN df \ {column} |-> df[c]]

\* The fields of the model that hold values of one column of the frame.
FieldsOf(column) ==
    CASE column = "OBV" -> {"OBV", "OBV5"}
      [] column = "EFI_EMA13" -> {"EFI_EMA13", "prev_EFI_EMA13"}
      [] column = "Hist" -> {"Hist", "prev_Hist"}
      [] OTHER -> {column}
WithoutColumn(df, column) ==
    LET rest == [c \in DOMAIN df \ FieldsOf(column) |-> df[c]]
    IN  IF "columns" \in DOMAIN df
        THEN [rest EXCEPT !.columns = Without(df.columns, column)]
        ELSE rest

\* The series with 0 in every field it lacks.
ZeroFilled(df, fields) ==
    [c \in DOMAIN df \cup fields |-> IF c \in DOMAIN df THEN df[c] ELSE 0]
ZeroSeries(n) == [k \in 1..n |-> 0]
ZeroFilledColumns(df) ==
    [df EXCEPT !.columns =
        [c \in {"MACD", "OBV", "RSI"} |->
            IF c \in DOMAIN df.columns THEN df.columns[c] ELSE ZeroSeries(Len(df.Low))]]

\* The fields the rules of the two scores read of the last bars.
TrendFields == {"Close", "MA20", "MA60", "ADX", "DIplus", "DIminus", "OBV", "OBV5",
                "EFI_EMA13"}
TriggerFields == {"Close", "MA20", "BIAS", "EFI_EMA13", "prev_EFI_EMA13", "Hist",
                  "prev_Hist", "K", "D", "ADX", "DIplus", "DIminus",
                  "TD_Buy_Setup", "TD_Sell_Setup"}

\* _calculate_trend_score(df) with its lookups: lines 398-417 index
\* current[...] directly, in the order of evaluation of the conditions;
\* lines 421-429 catch the KeyError of a missing OBV and skip the rule;
\* line 432 reads EFI_EMA13 with get(..., 0).
TrendScoreCall(df) ==
    IF df.bars < 5 THEN Returned(0)
    ELSE IF ~ Has(df, "Close") \/ ~ Has(df, "MA20") THEN KeyError
    ELSE IF df.Close # df.MA20 /\ ~ Has(df, "MA60") THEN KeyError
    ELSE IF ~ Has(df, "ADX") THEN KeyError
    ELSE IF df.ADX > 25 /\ (~ Has(df, "DIplus") \/ ~ Has(df, "DIminus")) THEN KeyError
    ELSE Returned(CalculateTrendScore(ZeroFilled(df, TrendFields)))

\* Whether a step of _calculate_trigger_score indexes a column the series
\* lacks: lines 799, 834-837, 865, 872, 900-901.  The other steps read with
\* get(..., 0), and _detect_divergence returns None for a missing column.
TriggerStepRaises(df, step) ==
    CASE step = "ma_position" -> ~ Has(df, "Close") \/ ~ Has(df, "MA20")
      [] step = "macd_hist" -> ~ Has(df, "Hist")
      [] step = "kd" -> ~ Has(df, "K") \/ ~ Has(df, "D")
      [] step = "obv_trend" -> Len(df.Low) >= 3 /\ ~ Has(df.columns, "OBV")
      [] step = "dmi" ->
           \/ ~ Has(df, "ADX")
           \/ df.ADX > 25 /\ (~ Has(df, "DIplus") \/ ~ Has(df, "DIminus"))
      [] OTHER -> FALSE

\* What a step adds to the score of a series that may lack columns, when
\* the step does not raise.
TriggerSubScoreLookups(df, step) ==
    IF step \in {"macd_divergence", "obv_divergence", "rsi_divergence"}
    THEN TriggerSubScore(df, step)
    ELSE TriggerSubScore(ZeroFilledColumns(ZeroFilled(df, TriggerFields)), step)

\* The steps before the chip step from step k on: the total, or KeyError
\* from the first step that raises.
RECURSIVE TriggerTotalFrom(_, _)
TriggerTotalFrom(df, k) ==
    IF TriggerSteps[k] = "chip" THEN Returned(0)
    ELSE IF TriggerStepRaises(df, TriggerSteps[k]) THEN KeyError
    ELSE LET rest == TriggerTotalFrom(df, k + 1)
         IN  IF rest = KeyError THEN KeyError
             ELSE Returned(TriggerSubScoreLookups(df, TriggerSteps[k]).score + rest.score)

\* The columns left out of the series explored.
MissingTrendColumns == {"none", "MA20", "MA60", "ADX", "DIplus", "DIminus", "OBV", "EFI_EMA13"}
MissingTriggerColumns ==
    {"none", "MA20", "BIAS", "EFI_EMA13", "Hist", "K", "D", "OBV", "MACD", "RSI",
     "ADX", "DIplus", "DIminus"}

InitMissing ==
    /\ EngineIdle
    /\ os = <<>>
    /\ \/ \E df \in WeekSeries, column \in MissingTrendColumns :
            /\ df.bars \in {4, 20} /\ df.morph = 0 /\ df.dClose = 1
            /\ analyzer = [method |-> "trend", df |-> WithoutColumn(df, column)]
       \/ \E an \in TriggerAnalyzers, dips \in BOOLEAN, bar \in TriggerBars,
             column \in MissingTriggerColumns :
            analyzer = [method |-> "trigger"] @@
                       WithSeries(an, WithoutColumn(
                           TriggerDaySeries(MinDayBars, dips,
                               IF dips THEN <<100, 90>> ELSE <<100, 110>>,
                               IF dips THEN <<-10, 0>> ELSE <<20, 0>>,
                               IF dips THEN <<-10, -9>> ELSE <<20, 18>>,
                               IF dips THEN <<0, -10>> ELSE <<0, 20>>, bar), column))
    /\ result = <<>>
    /\ local = <<>>

\* _calculate_trend_score(self.df_week) on a series that may lack a column.
CallTrendScore ==
    /\ pc = "analysis"
    /\ analyzer.method = "trend"
    /\ result = <<>>
    /\ result' = <<TrendScoreCall(analyzer.df)>>
    /\ UNCHANGED <<os, analyzer, local, closes, scores, self, pc, i, buy_threshold,
                   sell_threshold, res, opt, opt_out, trial>>

\* _calculate_trigger_score(self.df_day, trend_score) on a series that may
\* lack a column: an exception leaves before the chip factors are reached.
CallTriggerScoreLookups ==
    /\ pc = "analysis"
    /\ analyzer.method = "trigger"
    /\ result = <<>>
    /\ LET before == TriggerTotalFrom(analyzer.df, 1)
       IN  IF before = KeyError
           THEN result' = <<KeyError>> /\ analyzer' = analyzer
           ELSE \E out \in ChipOutcomes(analyzer) :
                   /\ result' = <<Returned(before.score + out.score)>>
                   /\ analyzer' = [analyzer EXCEPT !.us_chip_data = out.us_chip_data]
    /\ UNCHANGED <<os, local, closes, scores, self, pc, i, buy_threshold,
                   sell_threshold, res, opt, opt_out, trial>>

NextMissing == CallTrendScore \/ CallTriggerScoreLookups

SpecMissing == InitMissing /\ [][NextMissing]_vars

\* ======================================================================
\* The cache manager (src/cache_manager.py).
\*
\* os is [files, today]: the files of the cache directory (path -> file, or
\* NoFile) and today's date as a day number.  A file is its CSV text and the
\* day it was last written.  A ticker, a cache key and a path are sequences
\* of pieces of text, so that replace('.TW', '') is the removal of a piece.
CACHE_DIR == "data_cache"
NoFile == <<>>

\* ticker.replace('.TW', '').replace('.TWO', ''): the first replace also
\* turns ".TWO" into "O", so the second finds nothing.
SafeTicker(ticker) == SelectSeq(ticker, LAMBDA piece : piece # ".TW")

\* _get_path(ticker, data_type).
GetPath(ticker, data_type) ==
    <<CACHE_DIR, "/">> \o SafeTicker(ticker) \o <<"_", data_type, ".csv">>

\* Frames.  A frame is its index (name, kind and values: days for a
\* DatetimeIndex, positions for a RangeIndex) and the names of its columns;
\* pd.DataFrame() has neither rows nor columns.
NoFrame == [index_name |-> "", kind |-> "range", index |-> <<>>, columns |-> <<>>]
IsEmpty(df) == Len(df.index) = 0 \/ Len(df.columns) = 0

\* The text of a date and of a whole number in a CSV cell, and the date a
\* cell parses to.
FormatDate(day) == <<"date", day>>
FormatInt(n) == <<"int", n>>
IsDateText(cell) == cell[1] = "date"
ParseDate(cell) == cell[2]

\* df.to_csv(file_path): a header line (the index name, then the columns)
\* and one line per row, of which the model keeps the index cell.
ToCsv(df) ==
    [header |-> <<df.index_name>> \o df.columns,
     cells |-> [k \in 1..Len(df.index) |->
                  IF df.kind = "dates" THEN FormatDate(df.index[k])
                  ELSE FormatInt(df.index[k])]]

\* Lines 67-77: the frame read back, or Corrupt when pandas raises.
\* 'price' takes the first column as the index and parses it as dates;
\* the other types read every column as data (pandas names a blank
\* header "Unnamed: 0") and make 'date', when there is such a column,
\* the index.
Corrupt == [raised |-> "Exception"]
Renamed(header) == [k \in 1..Len(header) |-> IF header[k] = "" THEN "Unnamed: 0" ELSE header[k]]
ReadCsv(text, data_type) ==
    LET n == Len(text.cells)
        all_dates == \A k \in 1..n : IsDateText(text.cells[k])
        dates == [k \in 1..n |-> ParseDate(text.cells[k])]
    IN  IF data_type = "price"
        THEN IF all_dates
             THEN [index_name |-> text.header[1], kind |-> "dates", index |-> dates,
                   columns |-> Tail(text.header)]
             ELSE Corrupt
        ELSE IF text.header[1] = "date"
             THEN IF all_dates
                  THEN [index_name |-> "date", kind |-> "dates", index |-> dates,
                        columns |-> Tail(text.header)]
                  ELSE Corrupt
             ELSE [index_name |-> "", kind |-> "range", index |-> [k \in 1..n |-> k - 1],
                   columns |-> Renamed(text.header)]

\* What load_cache returns: (DataFrame, status, last_date), last_date being
\* None (<<>>) or a date (<<day>>).
NoDate == <<>>
Loaded(df, status, last_date) == [df |-> df, status |-> status, last_date |-> last_date]
Miss == Loaded(NoFrame, "miss", NoDate)

\* load_cache with a file of an earlier day never fresh: the comparison of
\* the last date with today is left out.
LoadCacheNoFreshCheck(o, ticker, data_type, force_reload) ==
    IF force_reload THEN Miss
    ELSE LET file == o.files[GetPath(ticker, data_type)]
         IN  IF file = NoFile THEN Miss
             ELSE LET df == ReadCsv(file.text, data_type)
                  IN  IF df = Corrupt THEN Miss
                      ELSE IF file.mtime <= o.today /\ ~ IsEmpty(df)
                      THEN Loaded(df, "partial",
                                  IF df.kind = "dates" THEN <<Current(df.index)>> ELSE NoDate)
                      ELSE Loaded(df, "hit", NoDate)

\* load_cache(ticker, data_type, force_reload).
LoadCache(o, ticker, data_type, force_reload) ==
    IF force_reload THEN Miss
    ELSE LET file == o.files[GetPath(ticker, data_type)]
         IN  IF file = NoFile THEN Miss
             ELSE LET df == ReadCsv(file.text, data_type)
                  IN  IF df = Corrupt THEN Miss
                      ELSE IF file.mtime < o.today /\ ~ IsEmpty(df)
                      THEN LET last_date == IF df.kind = "dates" THEN <<Current(df.index)>>
                                            ELSE NoDate
                           IN  IF last_date # NoDate /\ last_date[1] >= o.today
                               THEN Loaded(df, "hit", NoDate)
                               ELSE Loaded(df, "partial", last_date)
                      ELSE Loaded(df, "hit", NoDate)

\* save_cache(ticker, df, data_type): the files afterwards.
SaveCache(o, ticker, df, data_type) ==
    IF IsEmpty(df) THEN o.files
    ELSE [o.files EXCEPT ![GetPath(ticker, data_type)] =
             [text |-> ToCsv(df), mtime |-> o.today]]

\* The paths delete_ticker_cache(ticker) looks at: price, and the chip
\* files of the keys {ticker}_inst and {ticker}_margin.
DeletedPaths(ticker) ==
    {GetPath(ticker, "price"), GetPath(ticker \o <<"_inst">>, "chip"),
     GetPath(ticker \o <<"_margin">>, "chip")}

\* delete_ticker_cache(ticker): the files afterwards and the value returned.
DeleteTickerCache(o, ticker) ==
    [files |-> [p \in DOMAIN o.files |->
                   IF p \in DeletedPaths(ticker) THEN NoFile ELSE o.files[p]],
     deleted |-> \E p \in DeletedPaths(ticker) : o.files[p] # NoFile]

\* ------------------------------------------------------------- the callers
\* The cache keys of ChipAnalyzer.get_chip_data (chip_analysis.py, lines
\* 28-31) for a stock id.
ChipKeys(stock_id) ==
    {stock_id \o <<suffix>> :
        suffix \in {"_inst", "_margin", "_day_trading", "_shareholding"}}

\* The inputs explored: one stock under its two spellings, frames of up to
\* MaxRows consecutive days ending on one of Days, a chip frame with its
\* index named 'date' or unnamed.
MaxRows == 2
MaxCalls == 3
Days == {0, 1}
Tickers == {<<"2330">>, <<"2330", ".TW">>}
CacheEntries ==
    {[ticker |-> t, data_type |-> "price"] : t \in Tickers} \cup
    {[ticker |-> k, data_type |-> "chip"] : k \in ChipKeys(<<"2330">>)}
CachePaths == {GetPath(e.ticker, e.data_type) : e \in CacheEntries}
DatedFrame(rows, last, index_name) ==
    [index_name |-> index_name, kind |-> "dates",
     index |-> [k \in 1..rows |-> last - rows + k], columns |-> <<"Close">>]
Frames(data_type) ==
    {DatedFrame(rows, last, index_name) :
        rows \in 1..MaxRows, last \in Days,
        index_name \in (IF data_type = "price" THEN {"Date"} ELSE {"date", ""})}
    \cup {NoFrame}

\* local is what the caller keeps: per path the frame it saved last and the
\* day of the save (<<>> when it saved none, or deleted it since), and the
\* number of calls made.
InitCache ==
    /\ EngineIdle
    /\ analyzer = <<>>
    /\ result = <<>>
    /\ local = [saved |-> [p \in CachePaths |-> <<>>], calls |-> 0]
    /\ os = [files |-> [p \in CachePaths |-> NoFile], today |-> 0]

CallSaveCache ==
    /\ pc = "analysis"
    /\ local.calls < MaxCalls
    /\ \E e \in CacheEntries : \E df \in Frames(e.data_type) :
          /\ os' = [os EXCEPT !.files = SaveCache(os, e.ticker, df, e.data_type)]
          /\ local' = [saved |-> IF IsEmpty(df) THEN local.saved
                                 ELSE [local.saved EXCEPT ![GetPath(e.ticker, e.data_type)] =
                                          <<[df |-> df, day |-> os.today]>>],
                       calls |-> local.calls + 1]
          /\ result' = <<[call |-> "save_cache"]>>
    /\ UNCHANGED <<analyzer, closes, scores, self, pc, i, buy_threshold, sell_threshold,
                   res, opt, opt_out, trial>>

CallLoadCache ==
    /\ pc = "analysis"
    /\ local.calls < MaxCalls
    /\ \E e \in CacheEntries, force_reload \in BOOLEAN :
          result' = <<[call |-> "load_cache", ticker |-> e.ticker,
                       data_type |-> e.data_type, force_reload |-> force_reload,
                       returned |-> LoadCache(os, e.ticker, e.data_type, force_reload)]>>
    /\ local' = [local EXCEPT !.calls = local.calls + 1]
    /\ UNCHANGED <<os, analyzer, closes, scores, self, pc, i, buy_threshold, sell_threshold,
                   res, opt, opt_out, trial>>

CallDeleteTickerCache ==
    /\ pc = "analysis"
    /\ local.calls < MaxCalls
    /\ \E ticker \in Tickers :
          LET out == DeleteTickerCache(os, ticker)
          IN  /\ os' = [os EXCEPT !.files = out.files]
              /\ result' = <<[call |-> "delete_ticker_cache", ticker |-> ticker,
                              returned |-> out.deleted]>>
              /\ local' = [saved |-> [p \in CachePaths |->
                                         IF out.files[p] = NoFile THEN <<>>
                                         ELSE local.saved[p]],
                           calls |-> local.calls + 1]
    /\ UNCHANGED <<analyzer, closes, scores, self, pc, i, buy_threshold, sell_threshold,
                   res, opt, opt_out, trial>>

\* The date changes.
Midnight ==
    /\ pc = "analysis"
    /\ os.today + 1 \in Days
    /\ os' = [os EXCEPT !.today = os.today + 1]
    /\ UNCHANGED <<analyzer, result, local, closes, scores, self, pc, i, buy_threshold,
                   sell_threshold, res, opt, opt_out, trial>>

NextCache == CallSaveCache \/ CallLoadCache \/ CallDeleteTickerCache \/ Midnight

SpecCache == InitCache /\ [][NextCache]_vars

\* ======================================================================
\* The strategy manager (src/strategy_manager.py) and the two places of the
\* page that use it (src/app.py).
\*
\* os is [files]: the configuration file, a file with its JSON text or
\* NoFile.
ConfigFile == "strategy_config.json"

\* json.dump(self.strategies, f) and json.load(f) for a dict of dicts of
\* whole numbers: the text is kept as its members, (ticker, key, number).
JsonDump(strategies) ==
    {<<ticker, key, strategies[ticker][key]>> :
        ticker \in DOMAIN strategies, key \in {"buy_threshold", "sell_threshold"}}
JsonLoad(text) ==
    [ticker \in {m[1] : m \in text} |->
        [key \in {m[2] : m \in {x \in text : x[1] = ticker}} |->
            (CHOOSE m \in text : m[1] = ticker /\ m[2] = key)[3]]]

\* StrategyManager(): self.strategies = self._load_from_file().
LoadFromFile(o) ==
    IF o.files[ConfigFile] = NoFile THEN <<>> ELSE JsonLoad(o.files[ConfigFile].text)

\* save_strategy(ticker, buy_threshold, sell_threshold): the strategies
\* afterwards, which _save_to_file writes.
SaveStrategy(strategies, ticker, b, s) ==
    (ticker :> [buy_threshold |-> b, sell_threshold |-> s]) @@ strategies

\* load_strategy(ticker): self.strategies.get(ticker), None being <<>>.
LoadStrategy(strategies, ticker) ==
    IF ticker \in DOMAIN strategies THEN strategies[ticker] ELSE <<>>

\* The inputs explored: two tickers, pairs of the optimizer's grid, a few
\* daily series, every scenario and trigger score of the action plan.
StrategyTickers == {"2330", "TSM"}
BestPairs == {[buy |-> 2, sell |-> -1], [buy |-> 4, sell |-> -3], [buy |-> 3, sell |-> -2]}
StrategyDaySeries ==
    {df \in DaySeries :
        /\ df.MA5 = 40 /\ df.MA10 = 38 /\ df.MA60 = 46 /\ df.MA120 = 52
        /\ df.Low20 = 40 /\ df.High20 = 60 /\ df.BB_Lo = 45 /\ df.BB_Up = 58}

InitStrategy ==
    /\ EngineIdle
    /\ os = [files |-> [f \in {ConfigFile} |-> NoFile]]
    /\ analyzer = <<>>
    /\ result = <<>>
    /\ local = <<>>

\* The backtest section of the page with optimization (app.py, lines
\* 1048-1060): a new manager, best_p from optimize, save_strategy.
BacktestSection ==
    /\ pc = "analysis"
    /\ \E ticker \in StrategyTickers, best_p \in BestPairs :
          os' = [os EXCEPT !.files[ConfigFile] =
                    [text |-> JsonDump(SaveStrategy(LoadFromFile(os), ticker,
                                                    best_p.buy, best_p.sell))]]
    /\ analyzer' = <<>>
    /\ result' = <<>>
    /\ UNCHANGED <<local, closes, scores, self, pc, i, buy_threshold, sell_threshold,
                   res, opt, opt_out, trial>>

\* The analysis of the page (app.py, lines 307-315): a new manager,
\* load_strategy, TechnicalAnalyzer(..., strategy_params) and run_analysis,
\* of which the action plan is kept.
AnalysisSection ==
    /\ pc = "analysis"
    /\ \E ticker \in StrategyTickers, df \in StrategyDaySeries,
          scenario \in ScenarioCodes, trigger_score \in TriggerScores :
          LET strategy_params == LoadStrategy(LoadFromFile(os), ticker)
          IN  /\ analyzer' = [ticker |-> ticker, df_day |-> df, scenario |-> scenario,
                              trigger_score |-> trigger_score,
                              strategy_params |-> strategy_params]
              /\ result' = <<ActionPlan(df, scenario, trigger_score, strategy_params)>>
    /\ UNCHANGED <<os, local, closes, scores, self, pc, i, buy_threshold, sell_threshold,
                   res, opt, opt_out, trial>>

NextStrategy == BacktestSection \/ AnalysisSection

SpecStrategy == InitStrategy /\ [][NextStrategy]_vars
\* ----------------------------------------------------------------------
\* Properties of the scenario classification.
Scenario == result[1].scenario
TrendScore == result[1].trend_score

\* C11: for every trend score, half points included, the scenario is A iff
\* score >= 3, B iff 1 <= score < 3, C iff -2 <= score <= 0, and D for every
\* other value (0.5, and everything below -2); exactly one code is returned.
C11_ScenarioRanges ==
    result # <<>> =>
        /\ Scenario \in {"A", "B", "C", "D"}
        /\ Scenario = "A" <=> TrendScore >= 300
        /\ Scenario = "B" <=> (100 <= TrendScore /\ TrendScore < 300)
        /\ Scenario = "C" <=> (-200 <= TrendScore /\ TrendScore <= 0)
        /\ Scenario = "D" <=> ((0 < TrendScore /\ TrendScore < 100) \/ TrendScore < -200)

\* A half-point score strictly between 0 and 1 has been classified, as D.
C11_Witness ==
    /\ result # <<>>
    /\ TrendScore = 50
    /\ Scenario = "D"

\* C12: a weekly series of fewer than 5 bars is classified N, and nothing
\* else is.
C12_ShortSeriesIsN ==
    result # <<>> => (Scenario = "N" <=> analyzer.df_week.bars < 5)

\* ----------------------------------------------------------------------
\* Properties of the action plan.
HasPlan == result # <<>> /\ result[1] # NoPlan
Plan == result[1]
Df == analyzer.df_day
Supplied == DOMAIN analyzer.strategy_params # {}
BuyThreshold ==
    IF "buy" \in DOMAIN analyzer.strategy_params
    THEN 100 * analyzer.strategy_params.buy ELSE 300
SellThreshold ==
    IF "sell" \in DOMAIN analyzer.strategy_params
    THEN 100 * analyzer.strategy_params.sell ELSE -200
ForcedBuy == Supplied /\ analyzer.trigger_score >= BuyThreshold
ForcedSell == Supplied /\ ~ ForcedBuy /\ analyzer.trigger_score <= SellThreshold
\* The items of the plan's target list flagged as recommended.
Recommended == {k \in DOMAIN Plan.tp_list : Plan.tp_list[k].is_rec}
RecTarget == Plan.tp_list[CHOOSE k \in Recommended : TRUE]
HasTarget(name) == \E k \in DOMAIN Plan.tp_list : Plan.tp_list[k].method = name
LowestFirst ==
    /\ Plan.tp_list[1].is_rec
    /\ \A k \in DOMAIN Plan.tp_list : Plan.tp_list[1].price <= Plan.tp_list[k].price

\* C13: with thresholds supplied, a trigger score at or above the buy
\* threshold makes the plan actionable in every scenario, with the entry zone
\* [0.99 close, 1.01 close] and the target chosen as for scenario A (the
\* Fibonacci target when it is listed); otherwise a score at or below the sell
\* threshold makes it not actionable in every scenario; in every other case
\* the plan is actionable exactly for the scenarios A, B and C.
C13_OptimizerOverride ==
    HasPlan =>
        /\ ForcedBuy =>
              /\ Plan.is_actionable
              /\ Plan.rec_entry_low = Df.Close * 990
              /\ Plan.rec_entry_high = Df.Close * 1010
              /\ Plan.strategy = "optimizer_buy"
              /\ HasTarget("Fib_1618") => RecTarget.method = "Fib_1618"
        /\ ForcedSell => (~ Plan.is_actionable /\ Plan.strategy = "optimizer_sell")
        /\ (~ ForcedBuy /\ ~ ForcedSell) =>
              (Plan.is_actionable <=> analyzer.scenario \in {"A", "B", "C"})

\* A score at the buy threshold has made scenario D actionable, with the
\* Fibonacci target recommended.
C13_Witness ==
    /\ HasPlan
    /\ ForcedBuy
    /\ analyzer.scenario = "D"
    /\ Plan.is_actionable
    /\ RecTarget.method = "Fib_1618"

\* C14: a plan that is not actionable has entry zone and target price 0 and
\* an empty target list, and still lists every stop candidate whose price is
\* positive.
C14_WatchPlanIsBlank ==
    (HasPlan /\ ~ Plan.is_actionable) =>
        /\ Plan.rec_entry_low = 0
        /\ Plan.rec_entry_high = 0
        /\ Plan.rec_tp_price = 0
        /\ Plan.tp_list = <<>>
        /\ Plan.sl_list # <<>>
        /\ \A level \in {Plan.sl_atr, Plan.sl_ma, Plan.sl_key_candle, Plan.sl_low} :
              level > 0 => \E k \in DOMAIN Plan.sl_list : Plan.sl_list[k].price = level
        /\ \A k \in DOMAIN Plan.sl_list :
              /\ Plan.sl_list[k].price > 0
              /\ k > 1 => Plan.sl_list[k - 1].price >= Plan.sl_list[k].price

\* A plan to stay out that lists all four stop candidates.
C14_Witness ==
    /\ HasPlan
    /\ ~ Plan.is_actionable
    /\ Len(Plan.sl_list) = 4
    /\ analyzer.scenario \in {"A", "D"}

\* The entry basis the plan was computed from (a local of the planner).
EntryBasis ==
    PlanEntry(Df, analyzer.scenario, analyzer.trigger_score,
              analyzer.strategy_params).entry_basis
EffectiveCode ==
    PlanEntry(Df, analyzer.scenario, analyzer.trigger_score,
              analyzer.strategy_params).code
Risk == EntryBasis - Plan.rec_sl_price
Quotient == Frac(Plan.rec_tp_price - EntryBasis, Risk)

\* C15 as stated: the risk-reward ratio is 0 whenever the plan is not
\* actionable or entry - stop <= 0, and (target - entry) / (entry - stop) in
\* every other case.
C15_RiskReward ==
    HasPlan =>
        IF ~ Plan.is_actionable \/ Risk <= 0
        THEN RrRatio(Plan) = FracZero
        ELSE RrRatio(Plan) = Quotient

\* C15, amended: the risk-reward ratio is 0 whenever the plan is not
\* actionable, the entry is not positive, the recommended stop is not
\* positive or entry - stop <= 0, and (target - entry) / (entry - stop) in
\* every other case.
C15_RiskRewardPositivePrices ==
    HasPlan =>
        IF ~ Plan.is_actionable \/ EntryBasis <= 0 \/ Plan.rec_sl_price <= 0 \/ Risk <= 0
        THEN RrRatio(Plan) = FracZero
        ELSE RrRatio(Plan) = Quotient

\* A ratio other than 0 has been computed, and a ratio of 0 has been
\* returned for a stop that is not positive.
C15_Witness ==
    /\ HasPlan
    /\ Plan.is_actionable
    /\ \/ RrRatio(Plan) # FracZero
       \/ Plan.rec_sl_price <= 0 /\ Risk > 0
    /\ EntryBasis > 0

\* C16: in an actionable plan the recommended stop is the ATR stop,
\* entry - 2 ATR (0.9 entry when there is no ATR), and for scenario C it is
\* the swing low, the minimum Low of the trailing 20 bars.
C16_RecommendedStop ==
    (HasPlan /\ Plan.is_actionable) =>
        IF EffectiveCode = "C"
        THEN /\ Plan.rec_sl_method = "D_SwingLow"
             /\ Plan.rec_sl_price = 1000 * Df.Low20
        ELSE /\ Plan.rec_sl_method = "A_ATR"
             /\ Plan.rec_sl_price = IF Df.ATR > 0 THEN EntryBasis - 2000 * Df.ATR
                                    ELSE (EntryBasis * 9) \div 10

\* C17: in an actionable plan exactly one target is flagged recommended and
\* rec_tp_price is its price.  For scenario A it is the Fibonacci target, else
\* the N-measure target; for B the Bollinger-upper target; when the preferred
\* target is not valid (not above 1.02 entry), and for C, it is the lowest
\* valid target; when no target is valid it is the fallback 1.10 entry, alone
\* in the list.
C17_RecommendedTarget ==
    (HasPlan /\ Plan.is_actionable) =>
        LET fib == EntryBasis + (Df.High20 - Df.Low20) * 1618
            n_measure == EntryBasis + (Df.High20 - Df.Low20) * 1000
            bb_up == 1000 * Df.BB_Up
            valid(price) == price * 100 > EntryBasis * 102
        IN  /\ Cardinality(Recommended) = 1
            /\ Plan.rec_tp_price = RecTarget.price
            /\ \A k \in DOMAIN Plan.tp_list :
                  \/ valid(Plan.tp_list[k].price)
                  \/ Plan.tp_list[k].method = "Fallback" /\ Len(Plan.tp_list) = 1
            /\ HasTarget("Fallback") =>
                  /\ ~ valid(fib) /\ ~ valid(n_measure) /\ ~ valid(bb_up)
                  /\ RecTarget.price * 10 = EntryBasis * 11
            /\ IF EffectiveCode = "A" /\ valid(fib)
               THEN RecTarget.method = "Fib_1618" /\ RecTarget.price = fib
               ELSE IF EffectiveCode = "A" /\ valid(n_measure)
               THEN RecTarget.method = "N_measure" /\ RecTarget.price = n_measure
               ELSE IF EffectiveCode = "B" /\ bb_up > EntryBasis /\ valid(bb_up)
               THEN RecTarget.method = "BB_Up" /\ RecTarget.price = bb_up
               ELSE LowestFirst

\* Scenario B has recommended the Bollinger-upper target although a lower
\* valid target is listed.
C17_Witness ==
    /\ HasPlan
    /\ Plan.is_actionable
    /\ EffectiveCode = "B"
    /\ RecTarget.method = "BB_Up"
    /\ ~ Plan.tp_list[1].is_rec

\* ----------------------------------------------------------------------
\* Properties of the divergence detector.
Divergence == result[1]
SubLow == Tail_(analyzer.df.Low, analyzer.window)
SubHigh == Tail_(analyzer.df.High, analyzer.window)
SubInd == Tail_(analyzer.df.columns[analyzer.indicator_name], analyzer.window)
PriceTroughs == ArgRelExtrema(SubLow, -1, 3)
PricePeaks == ArgRelExtrema(SubHigh, 1, 3)
IndTroughs == ArgRelExtrema(SubInd, -1, 3)
IndPeaks == ArgRelExtrema(SubInd, 1, 3)
Bottoms == MatchPivots(PriceTroughs, IndTroughs, 3)
Tops == MatchPivots(PricePeaks, IndPeaks, 3)

\* C18: a strong divergence is returned only when, between the two most
\* recent price pivots of its kind, the price has moved more than 3%, the
\* first matched indicator pivot is not 0 and the indicator has moved more
\* than 10% of its magnitude the other way; and no divergence of a kind is
\* returned with fewer than two price pivots or fewer than two indicator
\* pivots of that kind.
C18_StrongNeedsBothMoves ==
    result # <<>> =>
        /\ Divergence \in {"bull_strong", "bull", "bull_weak"} =>
              Cardinality(PriceTroughs) >= 2 /\ Cardinality(IndTroughs) >= 2
        /\ Divergence \in {"bear_strong", "bear", "bear_weak"} =>
              Cardinality(PricePeaks) >= 2 /\ Cardinality(IndPeaks) >= 2
        /\ Divergence = "bull_strong" =>
              LET p1 == SubLow[Bottoms.p1_idx]
                  p2 == SubLow[Bottoms.p2_idx]
                  v1 == SubInd[Bottoms.ind1_idx]
                  v2 == SubInd[Bottoms.ind2_idx]
              IN  /\ (p1 - p2) * 100 > 3 * p1
                  /\ v1 # 0
                  /\ (v2 - v1) * 100 > 10 * Abs(v1)
        /\ Divergence = "bear_strong" =>
              LET p1 == SubHigh[Tops.p1_idx]
                  p2 == SubHigh[Tops.p2_idx]
                  v1 == SubInd[Tops.ind1_idx]
                  v2 == SubInd[Tops.ind2_idx]
              IN  /\ (p2 - p1) * 100 > 3 * p1
                  /\ v1 # 0
                  /\ (v1 - v2) * 100 > 10 * Abs(v1)

\* A lower low of exactly 3% against an indicator low that rose by more
\* than 10% has been reported as a standard divergence, not a strong one.
C18_Witness ==
    /\ result # <<>>
    /\ Divergence = "bull"
    /\ Cardinality(PriceTroughs) >= 2
    /\ SubLow[Bottoms.p1_idx] = 100
    /\ SubLow[Bottoms.p2_idx] = 97
    /\ SubInd[Bottoms.ind1_idx] = -10
    /\ SubInd[Bottoms.ind2_idx] = 0

\* ----------------------------------------------------------------------
\* Properties of the chip factors.
\* The regime modulator m(trendScore), doubled.
Modulator2 ==
    IF analyzer.trend_score >= 300 THEN 3
    ELSE IF analyzer.trend_score <= -200 THEN 1
    ELSE 2
\* The base weights of the sub-scores, in hundredths of a point.
BaseWeights ==
    [institutional |-> {0, 100, 150, -100, -150},
     margin |-> {0, -100, 50},
     day_trading |-> {0, -50, 30},
     streak |-> {0, 50, -50},
     held |-> {0, 150, 100, -50},
     held_change |-> {0, 100, -100},
     short_percent |-> {0, 100},
     short_ratio |-> {0, 50},
     short_change |-> {0, 50, -50},
     insider |-> {0, 150, 50, -150, -50},
     analyst |-> {0, 100, -100, 50, -50}]
IsChipStep == local # <<>> /\ local' # <<>> /\ local'.step = local.step + 1
StepName == ChipSteps(analyzer)[local.step]
Added == local'.score - local.score
ModulatedBase(step) == \E base \in BaseWeights[step] : 2 * Added = base * Modulator2

IsTriggerStep == local # <<>> /\ local' # <<>> /\ local'.step = local.step + 1
TriggerStepName == TriggerSteps[local.step]
TriggerAdded == local'.score - local.score
\* The indicator whose divergence the step scores.
DivergenceColumn ==
    [macd_divergence |-> "MACD", obv_divergence |-> "OBV", rsi_divergence |-> "RSI"]
Detected == DetectDivergence(analyzer.df, DivergenceColumn[TriggerStepName], Window)
ThreeTiers(div) ==
    CASE div = "bull_strong" -> 300
      [] div = "bull" -> 200
      [] div = "bull_weak" -> 100
      [] div = "bear_strong" -> -300
      [] div = "bear" -> -200
      [] div = "bear_weak" -> -100
      [] OTHER -> 0
RsiTiers(div) ==
    CASE div = "bull_strong" -> 150
      [] div = "bull" -> 100
      [] div = "bear_strong" -> -150
      [] div = "bear" -> -100
      [] OTHER -> 0

\* C20 as stated: for each of MACD, OBV and RSI a detected divergence changes
\* the score by exactly 3 when strong, 2 when standard and 1 when weak,
\* positive for bullish and negative for bearish, and by 0 when none is
\* detected.
C20_ThreeTierBonus ==
    [][(IsTriggerStep /\ TriggerStepName \in DOMAIN DivergenceColumn) =>
          TriggerAdded = ThreeTiers(Detected)]_vars

\* C20, amended: for MACD and OBV a detected divergence changes the score by
\* exactly 3 when strong, 2 when standard and 1 when weak; for RSI by 1.5
\* when strong, 1 when standard and 0 when weak; positive for bullish and
\* negative for bearish, and by 0 when none is detected.
C20_ThreeTierBonusButRsi ==
    [][(IsTriggerStep /\ TriggerStepName \in DOMAIN DivergenceColumn) =>
          TriggerAdded = IF TriggerStepName = "rsi_divergence"
                         THEN RsiTiers(Detected)
                         ELSE ThreeTiers(Detected)]_vars

\* A score has been returned for a series whose MACD, OBV and RSI all show
\* a hidden bearish divergence: two messages, and none for RSI.
C20_Witness ==
    /\ result # <<>>
    /\ "columns" \in DOMAIN analyzer.df
    /\ analyzer.df.bars = 20
    /\ \A column \in {"MACD", "OBV", "RSI"} :
          DetectDivergence(analyzer.df, column, Window) = "bear_weak"
    /\ Cardinality({k \in DOMAIN result[1].details : result[1].details[k] = "bear_weak"}) = 2

\* ----------------------------------------------------------------------
\* Properties of the scores over series that lack a column.
\* C21: when one indicator column is absent from the series,
\* _calculate_trend_score and _calculate_trigger_score never raise: they
\* return the score the series gets with 0 for the missing value.
C21_MissingColumnIsZero ==
    result # <<>> =>
       /\ result[1] # KeyError
       /\ analyzer.method = "trend" =>
             result[1] = Returned(CalculateTrendScore(ZeroFilled(analyzer.df, TrendFields)))
       /\ (analyzer.method = "trigger" /\ ~ analyzer.is_us_stock) =>
             \E out \in ChipOutcomes(analyzer) :
                result[1] = Returned(out.score +
                    TriggerTotalFrom(ZeroFilledColumns(ZeroFilled(analyzer.df, TriggerFields)),
                                     1).score)

\* C22: the trigger score is deterministic and free of side effects: no
\* step of _calculate_trigger_score changes a field of the analyzer or the
\* series, and what the chip factors return is fixed by the analyzer, the
\* series and the trend score.
C22_SideEffectFree ==
    [][/\ analyzer' = analyzer
       /\ (IsTriggerStep /\ TriggerStepName = "chip") =>
             \A o1, o2 \in ChipOutcomes(analyzer) :
                o1.score = o2.score /\ o1.details = o2.details]_vars

C24_FreshAccumulators ==
    /\ res # <<>> => res[1] = RunReport(buy_threshold, sell_threshold)
    /\ opt_out # <<>> =>
          opt_out[1].best_res =
             <<RunReport(opt_out[1].best_params[1].buy, opt_out[1].best_params[1].sell)>>

\* run has returned a report with a closed trade on an engine on which
\* optimize ran before and whose last earlier call left it holding shares.
C24_Witness ==
    /\ res # <<>>
    /\ opt.k > GridSize
    /\ Len(res[1].trades) > 0
    /\ ~ res[1].holding
    /\ RunFinal(GridBuy(GridSize), GridSell(GridSize)).position = 1

\* The indicator pivots within the radius of a price pivot, and whether n
\* is one of them at the smallest distance.
Candidates(ind_idx, p_idx) == {n \in ind_idx : Abs(n - p_idx) <= Order}
Nearest(ind_idx, p_idx, n) ==
    /\ n \in Candidates(ind_idx, p_idx)
    /\ \A m \in Candidates(ind_idx, p_idx) : Abs(n - p_idx) <= Abs(m - p_idx)
NearestMatched(price_idx, ind_idx, m, kinds) ==
    (Cardinality(price_idx) >= 2 /\ Cardinality(ind_idx) >= 2) =>
        IF Candidates(ind_idx, m.p1_idx) # {} /\ Candidates(ind_idx, m.p2_idx) # {}
        THEN /\ Nearest(ind_idx, m.p1_idx, m.ind1_idx)
             /\ Nearest(ind_idx, m.p2_idx, m.ind2_idx)
        ELSE Divergence \notin kinds

\* C25: each of the two most recent price pivots is matched to the
\* indicator pivot nearest to it among those within 3 bars of it, and when
\* one of the two has no indicator pivot within 3 bars no divergence of that
\* type is reported.
C25_NearestPivot ==
    (/\ result # <<>>
     /\ Len(analyzer.df.Low) >= analyzer.window
     /\ analyzer.indicator_name \in DOMAIN analyzer.df.columns) =>
        /\ NearestMatched(PriceTroughs, IndTroughs, Bottoms,
                          {"bull_strong", "bull", "bull_weak"})
        /\ NearestMatched(PricePeaks, IndPeaks, Tops,
                          {"bear_strong", "bear", "bear_weak"})

\* ----------------------------------------------------------------------
\* C26: the thresholds saved for a ticker reach the action plan: the dict
\* load_strategy returns carries the saved pair, and the plan is the
\* optimizer's buy signal exactly when the trigger score is >= the saved
\* buy threshold, and its sell signal exactly when the score is below that
\* and <= the saved sell threshold.
C26_SavedThresholdsUsed ==
    (result # <<>> /\ analyzer.strategy_params # <<>>) =>
        LET saved == LoadStrategy(LoadFromFile(os), analyzer.ticker)
            buy == P(saved.buy_threshold)
            sell == P(saved.sell_threshold)
        IN  /\ analyzer.strategy_params = saved
            /\ (result[1].strategy = "optimizer_buy") = (analyzer.trigger_score >= buy)
            /\ (result[1].strategy = "optimizer_sell") =
                  (analyzer.trigger_score < buy /\ analyzer.trigger_score <= sell)

\* C27: in every reachable state of run cash is >= 0; a BUY bar purchases the
\* largest whole number of shares with shares*close*(1+fee_rate) <= cash, so
\* it spends no more than the cash available; every recorded equity is >= 0.
C27_CashNeverNegative ==
    /\ [](self.cash >= 0)
    /\ [][IsBarStep =>
            LET entry == LastEntry(self')
                close == closes[i]
                price == close * (RateDen + FeeNum)
            IN  /\ entry.equity >= 0
                /\ entry.action = "BUY" =>
                    /\ self'.holdings * price <= self.cash
                    /\ (self'.holdings + 1) * price > self.cash
                    /\ self.cash - self'.cash <= self.cash
       ]_vars

\* C27 witness: a buy has left less cash than one more share would cost, and
\* not all of the cash was spent.
C27_Witness ==
    /\ pc = "run"
    /\ self.position = 1
    /\ self.equity_curve # <<>>
    /\ LastEntry(self).action = "BUY"
    /\ self.cash > 0
    /\ self.cash < closes[LastEntry(self).date] * (RateDen + FeeNum)

\* C28: every actionable plan returned by _generate_action_plan has an entry
\* zone with 0 < rec_entry_low <= rec_entry_high, whatever the scenario, the
\* stored thresholds and the last bar's prices and moving averages (a
\* missing moving average being read as 0).
C28_EntryZoneWellFormed ==
    (result # <<>> /\ result[1] # NoPlan /\ result[1].is_actionable) =>
        /\ 0 < result[1].rec_entry_low
        /\ result[1].rec_entry_low <= result[1].rec_entry_high

\* The order D < C < B < A of the scenario codes, and the trend scores the
\* additive rules can produce: half points from -8 to 8.
ScenarioRank(code) ==
    CASE code = "D" -> 0 [] code = "C" -> 1 [] code = "B" -> 2 [] code = "A" -> 3
HalfPointScores == {k * Half : k \in -16..16}

\* C29: the classification is monotone in the trend score: the scenario of
\* the score classified is never more bearish (D < C < B < A) than the
\* scenario of any score not above it, half points included.
C29_MonotoneScenario ==
    result # <<>> =>
        \A s1 \in HalfPointScores :
            s1 <= TrendScore =>
                ScenarioRank(DetermineScenario(s1)) <= ScenarioRank(Scenario)

\* C30: after delete_ticker_cache(ticker) load_cache reports a miss for
\* every entry saved for that ticker (price, institutional, margin,
\* day-trading and shareholding), and the call returns true exactly when it
\* removed at least one file.
C30_DeleteRemovesEveryEntry ==
    [][(local' # local /\ result' # <<>> /\ result'[1].call = "delete_ticker_cache") =>
          /\ \A e \in CacheEntries :
                LoadCache(os', e.ticker, e.data_type, FALSE) = Miss
          /\ result'[1].returned = (os'.files # os.files)]_vars

====
